---- MODULE Spec2Model ----
(***************************************************************************)
(* Page-context cache, crawl coordinator, context enricher and product    *)
(* matcher of the ai-ads backend (apps/backend), as a state machine.       *)
(*                                                                         *)
(* Time is in seconds.  The clock `now` only moves by the steps listed in  *)
(* TickSteps (one poll interval, one staleness window, one cache TTL), so  *)
(* that every comparison against the program's 5 s / 300 s / 86400 s       *)
(* constants is exercised on both sides of its boundary.                   *)
(*                                                                         *)
(* Tasks are get_or_enrich coroutines on one asyncio event loop: a task    *)
(* runs without interruption between two awaits, so every action below is  *)
(* the code between two consecutive suspension points.                     *)
(***************************************************************************)
EXTENDS Integers, Sequences, FiniteSets, TLC

\* ------------------------------------------------------------------ bounds

\* number of get_or_enrich coroutines of one process run
NumTasks == 2
\* how many times the clock may advance by one poll interval
MaxShortTicks == 1
\* how many times the clock may advance by one staleness window
MaxStaleTicks == 1
\* how many times the clock may advance by one cache TTL
MaxTtlTicks == 1
\* how many writes of the cache file may fail
MaxSaveFaults == 1
\* how many characters the path of a URL may have
MaxPathLen == 4
\* how many products a call of find_best_products is given
MaxProducts == 3
\* how many topics a page may have
MaxTopics == 3
\* the largest top_k of a call of find_best_products
MaxTopK == 2
\* how many components a vector given to cosine_similarity may have
MaxDim == 2
\* the largest absolute value of a component of such a vector
MaxCoord == 4

\* ------------------------------------------------------- program constants

\* settings.PAGE_CONTEXT_CACHE_TTL
PAGE_CONTEXT_CACHE_TTL == 86400
\* is_being_crawled: "if age.total_seconds() < 300"
CRAWLING_STALE_SECS == 300
\* crawl_url_sync: wait_interval = 5
wait_interval == 5

\* settings.APIFY_TIMEOUT_SECS is an integer setting (default 300); the
\* values a run may be configured with here: one that the interval divides
\* and one that it does not.
TimeoutChoices == {5, 7}

Tasks == 1..NumTasks

\* Optional[datetime] = None
None == -1

\* ------------------------------------------------------------------- URLs

\* urlparse(url): the components _normalize_url reads or drops.  A path is
\* a tuple of characters.
Url(path, query, fragment) ==
    [scheme |-> "https", netloc |-> "h", path |-> path,
     query |-> query, fragment |-> fragment]

NullUrl == [scheme |-> "", netloc |-> "", path |-> <<>>, query |-> "", fragment |-> ""]

UrlA == Url(<<"/", "a">>, "", "")
UrlASlashFrag == Url(<<"/", "a", "/">>, "", "top")
UrlB == Url(<<"/", "b">>, "q=1", "")

\* the URLs the store operations are called with
Urls == {UrlA, UrlASlashFrag, UrlB}

\* the URLs ad requests are made with: two spellings of one page
RequestUrls == {UrlA, UrlASlashFrag}

\* PageContextStorage._normalize_url: scheme://netloc/path, query and
\* fragment dropped, one trailing '/' removed unless the path is one
\* character long.
_normalize_url(url) ==
    LET p == url.path
        stripped == IF Len(p) > 1 /\ p[Len(p)] = "/"
                    THEN SubSeq(p, 1, Len(p) - 1)
                    ELSE p
    IN  [scheme |-> url.scheme, netloc |-> url.netloc, path |-> stripped,
         query |-> "", fragment |-> ""]

Keys == {_normalize_url(u) : u \in Urls}

\* --------------------------------------------------------------- records

\* page content a crawl can deliver
Contents == {"p1", "p2"}

\* EnrichedPageContext: the URL it was crawled for, its content fields (one
\* token stands for title, headings, main_content, keywords, topics, ...)
\* and the optional embedding.
EnrichedPageContext(url, content, embedding) ==
    [url |-> url, content |-> content, text_embedding |-> embedding]

\* Optional[EnrichedPageContext] = None
NoContext == [url |-> NullUrl, content |-> "None", text_embedding |-> "None"]

\* PageContextCache
PageContextCache(url, ctx, crawling, triggered, cachedAt) ==
    [url |-> url, enriched_context |-> ctx, is_crawling |-> crawling,
     last_crawl_triggered |-> triggered, cached_at |-> cachedAt]

\* Optional[PageContextCache] = None
NoEntry == PageContextCache(NullUrl, NoContext, FALSE, None, None)

\* ------------------------------------------------------------------ state

VARIABLES
    now,        \* datetime.utcnow(), seconds
    cache,      \* PageContextStorage._cache: normalized URL -> PageContextCache
    disk,       \* the file at PAGE_CONTEXT_DB_PATH
    enabled,    \* ApifyPageCrawler.enabled (APIFY_API_TOKEN is set)
    max_wait,   \* settings.APIFY_TIMEOUT_SECS
    pc,         \* per task: where the coroutine is suspended
    url,        \* per task: sdk_context.url
    elapsed,    \* per task: crawl_url_sync's elapsed
    rested,     \* per task: the pending asyncio.sleep has lasted wait_interval
    ret,        \* per task: what get_or_enrich returned
    h,          \* per task: observations of the call (no program state)
    faults,     \* how many writes of _save have failed (no program state)
    stored,     \* per normalized URL: the context a direct call of
                \* store_enriched_context stored last (no program state)
    last,       \* the last direct call of a store operation and what it
                \* returned (no program state)
    args,       \* the arguments of the call of find_best_products
    result      \* what the call of find_best_products did

vars == <<now, cache, disk, enabled, max_wait, pc, url, elapsed, rested, ret, h,
          faults, stored, last, args, result>>

\* the observations of the direct calls of the store
storeObs == <<stored, last>>

\* no direct call of the store has been made
NoOp == [op |-> "", url |-> NullUrl, key |-> NullUrl, flag |-> FALSE,
         entry |-> NoEntry, ctx |-> NoContext, answer |-> FALSE]

\* page_topics=None, and a list of topics
NoneTopics == [is_none |-> TRUE, list |-> <<>>]

TopicList(list) == [is_none |-> FALSE, list |-> list]

\* what a call of find_best_products did: nothing yet, returned a list,
\* raised; scores is the list the call handed to _diversify_by_topics
NoResult == [status |-> "none", items |-> <<>>, scores |-> <<>>]

Returned(items, scores_) ==
    [status |-> "returned", items |-> items, scores |-> scores_]

\* "for topic in page_topics" with page_topics None
RaisedTypeError == [status |-> "raised", items |-> <<>>, scores |-> <<>>]

\* no call of find_best_products is made
NoArgs == [page_embedding |-> <<>>, products |-> <<>>, top_k |-> 0,
           min_score |-> 0, page_topics |-> NoneTopics]

\* the variables of the product matcher
matchVars == <<args, result>>

\* the variables of the request coroutines
taskVars == <<pc, url, elapsed, rested, ret, h>>

\* the awaits of crawl_url_sync: trigger_crawl, asyncio.sleep,
\* get_run_status, fetch_results
InCrawl == {"trigger", "sleep", "poll", "fetch"}

\* ------------------------------------------------------ PageContextStorage
\* Each operation is a function of the cache c (and of the clock); the
\* mutating ones return the cache they leave, which _save then writes.

\* PageContextStorage.get
get(c, u) ==
    LET normalized_url == _normalize_url(u)
    IN  IF normalized_url \notin DOMAIN c
        THEN NoEntry
        ELSE IF now - c[normalized_url].cached_at > PAGE_CONTEXT_CACHE_TTL
             THEN NoEntry
             ELSE c[normalized_url]

\* get_enriched, faulty: the entry is read without the TTL check of get
get_enriched_NoExpiry(c, u) ==
    LET k == _normalize_url(u)
    IN  IF k \in DOMAIN c THEN c[k].enriched_context ELSE NoContext

\* PageContextStorage.get_enriched
get_enriched(c, u) ==
    LET entry == get(c, u)
    IN  IF entry # NoEntry /\ entry.enriched_context # NoContext
        THEN entry.enriched_context
        ELSE NoContext

\* the dict after self._cache[k] = v
Put(c, k, v) == [x \in DOMAIN c \cup {k} |-> IF x = k THEN v ELSE c[x]]

\* set_crawling_status, faulty: the update of an entry refreshes cached_at
set_crawling_status_Touches(c, u, is_crawling) ==
    LET k == _normalize_url(u)
    IN  IF k \notin DOMAIN c
        THEN Put(c, k, PageContextCache(k, NoContext, is_crawling,
                                        IF is_crawling THEN now ELSE None, now))
        ELSE Put(c, k, [c[k] EXCEPT !.is_crawling = is_crawling,
                                    !.last_crawl_triggered = IF is_crawling THEN now ELSE @,
                                    !.cached_at = now])

\* set_crawling_status, faulty: the entry is built anew whether or not one
\* exists, and its enriched context is gone
set_crawling_status_Rebuilds(c, u, is_crawling) ==
    LET k == _normalize_url(u)
    IN  Put(c, k, PageContextCache(k, NoContext, is_crawling,
                                   IF is_crawling THEN now ELSE None, now))

\* PageContextStorage.set_crawling_status
set_crawling_status(c, u, is_crawling) ==
    LET normalized_url == _normalize_url(u)
    IN  IF normalized_url \notin DOMAIN c
        THEN Put(c, normalized_url,
                 PageContextCache(normalized_url, NoContext, is_crawling,
                                  IF is_crawling THEN now ELSE None, now))
        ELSE Put(c, normalized_url,
                 [c[normalized_url] EXCEPT
                    !.is_crawling = is_crawling,
                    !.last_crawl_triggered = IF is_crawling THEN now ELSE @])

\* store_enriched_context, faulty: an entry that exists is updated in
\* place and keeps its crawl state
store_enriched_context_KeepsFlag(c, enriched_context) ==
    LET k == _normalize_url(enriched_context.url)
    IN  IF k \in DOMAIN c
        THEN Put(c, k, [c[k] EXCEPT !.enriched_context = enriched_context,
                                    !.cached_at = now])
        ELSE Put(c, k, PageContextCache(k, enriched_context, FALSE, None, now))

\* store_enriched_context, faulty: the entry is filed under the URL as
\* given, not under its normalized form
store_enriched_context_RawKey(c, enriched_context) ==
    Put(c, enriched_context.url,
        PageContextCache(enriched_context.url, enriched_context, FALSE, None, now))

\* PageContextStorage.store_enriched_context
store_enriched_context(c, enriched_context) ==
    LET normalized_url == _normalize_url(enriched_context.url)
    IN  Put(c, normalized_url,
            PageContextCache(normalized_url, enriched_context, FALSE, None, now))

\* is_being_crawled, faulty: the flag alone decides, however old its
\* trigger
is_being_crawled_NoStaleness(c, u) ==
    LET entry == get(c, u)
    IN  entry # NoEntry /\ entry.is_crawling

\* PageContextStorage.is_being_crawled
is_being_crawled(c, u) ==
    LET entry == get(c, u)
    IN  IF entry = NoEntry
        THEN FALSE
        ELSE /\ entry.is_crawling
             /\ entry.last_crawl_triggered # None
             /\ now - entry.last_crawl_triggered < CRAWLING_STALE_SECS

\* PageContextStorage.invalidate
invalidate(c, u) ==
    LET normalized_url == _normalize_url(u)
    IN  [x \in DOMAIN c \ {normalized_url} |-> c[x]]

\* PageContextStorage.clear_all
clear_all == [x \in {} |-> NoEntry]

\* The file at PAGE_CONTEXT_DB_PATH: whether json.load can read it, and the
\* record it holds per key.  A file that does not exist loads like "{}".
File(records) == [parseable |-> TRUE, records |-> records]

\* a file cut short by a write that failed after open(..., 'w')
Truncated == [parseable |-> FALSE, records |-> clear_all]

\* what the write of _save can end in: the image is written; open raises
\* and the file stays as it was; the write raises after the file was
\* opened for writing
SaveOutcomes == {"written", "not_opened", "cut_short"}

\* PageContextStorage._save: the file it leaves.  The exception of a failed
\* write is caught and printed.
_save(c, file, outcome) ==
    IF outcome = "written" THEN File(c)
    ELSE IF outcome = "not_opened" THEN file
    ELSE Truncated

\* PageContextCache(**cache_data) raises on a record without its required
\* url field
Malformed(record) == record.url = NullUrl

\* PageContextStorage._load: the cache it leaves.  One except clause wraps
\* json.load and the construction of all entries.
_load(file) ==
    IF file.parseable /\ \A k \in DOMAIN file.records : ~ Malformed(file.records[k])
    THEN file.records
    ELSE clear_all

\* --------------------------------------------------------- ContextEnricher

\* what embedding_generator.generate_page_embedding does: a vector, or an
\* exception
EmbeddingOutcomes == {"vec", "error"}

\* ContextEnricher.get_enriched_context: the context it returns and the
\* cache it leaves.  A cached context without embedding gets one and is
\* stored again; if the generator raises, the context is returned as it is.
get_enriched_context(c, u, emb) ==
    LET enriched == get_enriched(c, u)
    IN  IF enriched # NoContext /\ enriched.text_embedding = "None" /\ emb = "vec"
        THEN LET filled == [enriched EXCEPT !.text_embedding = "vec"]
             IN  [enriched |-> filled, cache |-> store_enriched_context(c, filled)]
        ELSE [enriched |-> enriched, cache |-> c]

\* should_trigger_crawl, faulty: is_being_crawled is not consulted
should_trigger_crawl_IgnoresFlag(c, u, emb) ==
    get_enriched_context(c, u, emb).enriched = NoContext

\* ContextEnricher.should_trigger_crawl, on the cache get_enriched_context
\* has left
should_trigger_crawl(c, u, emb) ==
    LET g == get_enriched_context(c, u, emb)
    IN  IF g.enriched # NoContext
        THEN FALSE
        ELSE ~ is_being_crawled(g.cache, u)

\* ContextEnricher.merge_contexts
merge_contexts(sdk_url, enriched_context) ==
    IF enriched_context # NoContext
    THEN [url |-> enriched_context.url, content |-> enriched_context.content,
          has_enriched |-> TRUE]
    ELSE [url |-> sdk_url, content |-> "None", has_enriched |-> FALSE]

\* a task that has not returned
NoReturn == [url |-> NullUrl, content |-> "None", has_enriched |-> FALSE]

\* -------------------------------------------------------- ApifyPageCrawler

\* what the POST of trigger_crawl can end in: 200/201 with a run id, 200/201
\* without one, another status code, an httpx exception
TriggerOutcomes == {"run_id", "no_id", "http_error", "network_error"}

\* trigger_crawl, faulty: a 200/201 response counts as a started run
\* whether it names a run id or not
trigger_crawl_AcceptsMissingId(outcome) ==
    IF outcome \in {"run_id", "no_id"} THEN "run" ELSE "None"

\* ApifyPageCrawler.trigger_crawl: the run id, or None
trigger_crawl(outcome) == IF outcome = "run_id" THEN "run" ELSE "None"

\* what get_run_status can hand to crawl_url_sync: None (non-200 or an
\* exception), a payload that is no dict, or a dict with a status
StatusOutcomes == {"None", "malformed", "READY", "RUNNING", "SUCCEEDED",
                   "FAILED", "ABORTED", "TIMED-OUT", "TIMED_OUT"}

\* what fetch_results can return: None, an empty list, a list whose first
\* record process_and_store_results cannot read, a list with a page record
FetchOutcomes == {"None", "empty", "malformed"} \cup Contents

\* the exception status.get('status') raises on a payload that is no dict
StatusException(status) == IF status = "malformed" THEN "AttributeError" ELSE "none"

\* the except clause, faulty: it names the exceptions of the HTTP client
\* only
ExceptCatches_HttpOnly(exc) == exc \in {"HTTPError", "TimeoutException"}

\* crawl_url_sync: "except Exception as e"
ExceptCatches(exc) == exc \in {"AttributeError", "TypeError", "KeyError", "ValueError"}

\* the failed statuses, faulty: ABORTED is missing
FailedStatuses_NoAborted == {"FAILED", "TIMED-OUT"}

\* crawl_url_sync: "elif run_status in ['FAILED', 'ABORTED', 'TIMED-OUT']"
FailedStatuses == {"FAILED", "ABORTED", "TIMED-OUT"}

\* the loop condition, faulty: "while elapsed <= max_wait"
LoopContinues_Inclusive(e) == e <= max_wait

\* crawl_url_sync: "while elapsed < max_wait"
LoopContinues(e) == e < max_wait

\* process_and_store_results, faulty: an embedding error leaves the try
\* block and nothing is stored
process_and_store_results_DropsOnError(c, u, results, emb) ==
    IF results \in Contents /\ emb = "vec"
    THEN store_enriched_context(c, EnrichedPageContext(u, results, "vec"))
    ELSE c

\* ApifyPageCrawler.process_and_store_results: the cache it leaves.  Falsy
\* results return at once; an unreadable record raises inside the try and
\* nothing is stored; an embedding error stores the context without one.
process_and_store_results(c, u, results, emb) ==
    IF results \in Contents
    THEN store_enriched_context(c,
             EnrichedPageContext(u, results, IF emb = "vec" THEN "vec" ELSE "None"))
    ELSE c

\* the failure exits, faulty: None is returned with the flag left up
CrawlFailed_KeepsFlag(c, u) == [enriched |-> NoContext, cache |-> c]

\* crawl_url_sync after the loop ("Mark as completed") and in its except
\* clause: clear the flag, return None
CrawlFailed(c, u) == [enriched |-> NoContext, cache |-> set_crawling_status(c, u, FALSE)]

\* crawl_url_sync on SUCCEEDED, after "results = await self.fetch_results":
\* what it returns and the cache it leaves
CrawlSucceeded(c, u, results, emb) ==
    IF results \in {"None", "empty"}
    THEN CrawlFailed(c, u)
    ELSE LET c1 == process_and_store_results(c, u, results, emb)
             stored_context == get(c1, u)
         IN  IF stored_context # NoEntry /\ stored_context.enriched_context # NoContext
             THEN [enriched |-> stored_context.enriched_context, cache |-> c1]
             ELSE CrawlFailed(c1, u)

\* get_or_enrich after the crawl, faulty: a failed crawl is not followed
\* by a second look in the cache
AfterCrawl_NoSecondLook(r, u, emb) ==
    [ret |-> merge_contexts(u, r.enriched), cache |-> r.cache]

\* get_or_enrich after "enriched = await self.crawler.crawl_url_sync(url)":
\* a failed crawl looks in the cache again; the merged context is returned
AfterCrawl(r, u, emb) ==
    IF r.enriched # NoContext
    THEN [ret |-> merge_contexts(u, r.enriched), cache |-> r.cache]
    ELSE LET g == get_enriched_context(r.cache, u, emb)
         IN  [ret |-> merge_contexts(u, g.enriched), cache |-> g.cache]

\* ---------------------------------------------------------------- actions

\* the crawls in flight for a normalized URL
ActiveOn(k) == {t \in Tasks : pc[t] \in InCrawl /\ _normalize_url(url[t]) = k}

\* observations of a call that has not been made
NoCall == [joined |-> {}, twin |-> {}, cold |-> FALSE, hadCtx |-> FALSE,
           being |-> FALSE, stuck |-> FALSE, called |-> FALSE, sent |-> FALSE,
           moved |-> FALSE, exit |-> "", got |-> FALSE, iters |-> 0, seen |-> "",
           refused |-> FALSE]

\* what a call observes when it is made (before it changes anything):
\*   joined  the crawls in flight for its URL
\*   twin    those of them whose call was made at this same instant
\*   cold    the cache has no entry for its URL
\*   hadCtx  the cache holds an unexpired enriched context for its URL
\*   being   is_being_crawled answers true
\*   stuck   no unexpired context, and the entry is flagged as crawling by
\*           a trigger that is CRAWLING_STALE_SECS old or older
\*   called  it calls crawl_url_sync
\*   sent    crawl_url_sync issues the trigger request
\* and while it runs: moved (the clock has advanced since the call was
\* made), iters (the sleep-and-poll iterations of its crawl), exit (the
\* path on which crawl_url_sync returned), got (it returned a context) and
\* seen (the status its last poll returned, when it is one of Watched and
\* the crawl has not returned) and refused (its trigger request did not
\* yield a run id)
Observe(u, called, sent) ==
    LET k == _normalize_url(u)
        fresh == k \in DOMAIN cache
                 /\ cache[k].enriched_context # NoContext
                 /\ now - cache[k].cached_at <= PAGE_CONTEXT_CACHE_TTL
    IN  [joined |-> ActiveOn(k),
         twin |-> {a \in ActiveOn(k) : ~ h[a].moved},
         cold |-> k \notin DOMAIN cache,
         hadCtx |-> fresh,
         being |-> is_being_crawled(cache, u),
         stuck |-> /\ k \in DOMAIN cache
                   /\ cache[k].is_crawling
                   /\ cache[k].last_crawl_triggered # None
                   /\ now - cache[k].last_crawl_triggered >= CRAWLING_STALE_SECS
                   /\ ~ fresh,
         called |-> called,
         sent |-> sent,
         moved |-> FALSE,
         exit |-> "",
         got |-> FALSE,
         iters |-> 0,
         seen |-> "",
         refused |-> FALSE]

\* the terminal statuses whose handling is observed
Watched == {"SUCCEEDED", "FAILED", "ABORTED", "TIMED-OUT", "TIMED_OUT"}

\* 1 for a write that failed
Fault(outcome) == IF outcome = "written" THEN 0 ELSE 1

\* the outcomes the write of a _save call can have, if the call is made
Writes(made) == IF made THEN SaveOutcomes ELSE {"written"}

\* get_or_enrich returns after crawl_url_sync returned r on the path
\* named: the merged context is handed to the caller and the coroutine's
\* locals are gone.  hh is what the call has observed so far.  Up to two
\* _save calls lie on the way: the one of the store operation before
\* crawl_url_sync returned (none when the crawler is disabled or the cache
\* was only read), and the one of the embedding back-fill when get_or_enrich
\* looks in the cache again.
Return(t, u, r, path, emb, hh) ==
    LET out == AfterCrawl(r, u, emb)
        first == ~ (path = "disabled" \/ (path = "hit" /\ r.cache = cache))
        second == out.cache # r.cache
    IN  \E s1 \in Writes(first), s2 \in Writes(second) :
          LET d1 == IF first THEN _save(r.cache, disk, s1) ELSE disk
              d2 == IF second THEN _save(out.cache, d1, s2) ELSE d1
              n == Fault(s1) + Fault(s2)
          IN  /\ faults + n <= MaxSaveFaults
              /\ faults' = faults + n
              /\ pc' = [pc EXCEPT ![t] = "done"]
              /\ ret' = [ret EXCEPT ![t] = out.ret]
              /\ cache' = out.cache
              /\ disk' = d2
              /\ elapsed' = [elapsed EXCEPT ![t] = 0]
              /\ rested' = [rested EXCEPT ![t] = FALSE]
              /\ h' = [h EXCEPT ![t] = [hh EXCEPT !.exit = path,
                                                  !.got = r.enriched # NoContext,
                                                  !.moved = TRUE,
                                                  !.seen = ""]]

\* the top of "while elapsed < max_wait" with elapsed = e: sleep, or leave
\* the loop on the timeout, clear the flag and return None
LoopTop(t, e, emb, hh) ==
    IF LoopContinues(e)
    THEN /\ pc' = [pc EXCEPT ![t] = "sleep"]
         /\ elapsed' = [elapsed EXCEPT ![t] = e]
         /\ rested' = [rested EXCEPT ![t] = FALSE]
         /\ h' = [h EXCEPT ![t] = hh]
         /\ UNCHANGED <<cache, disk, faults, ret>>
    ELSE Return(t, url[t], CrawlFailed(cache, url[t]), "timeout", emb, hh)

\* get_or_enrich(sdk_context) up to its first await: the cache lookup, the
\* decision to crawl, and crawl_url_sync up to "await self.trigger_crawl".
\* The tasks are numbered in the order in which their calls are made.
Start(t, u, emb) ==
    /\ pc[t] = "idle"
    /\ \A earlier \in Tasks : earlier < t => pc[earlier] # "idle"
    /\ url' = [url EXCEPT ![t] = u]
    /\ LET g == get_enriched_context(cache, u, emb)
           crawl == g.enriched = NoContext /\ should_trigger_crawl(g.cache, u, emb)
       IN  IF ~ crawl
           THEN Return(t, u, [enriched |-> g.enriched, cache |-> g.cache], "hit", emb,
                       Observe(u, FALSE, FALSE))
           ELSE IF ~ enabled
           THEN Return(t, u, [enriched |-> NoContext, cache |-> g.cache], "disabled", emb,
                       Observe(u, TRUE, FALSE))
           ELSE /\ cache' = set_crawling_status(g.cache, u, TRUE)
                /\ \E s \in SaveOutcomes :
                      /\ faults + Fault(s) <= MaxSaveFaults
                      /\ faults' = faults + Fault(s)
                      /\ disk' = _save(cache', disk, s)
                /\ pc' = [pc EXCEPT ![t] = "trigger"]
                /\ h' = [h EXCEPT ![t] = Observe(u, TRUE, TRUE)]
                /\ UNCHANGED <<ret, elapsed, rested>>
    /\ UNCHANGED <<now, enabled, max_wait, matchVars, storeObs>>

\* "run_id = await self.trigger_crawl(url)" returns
TriggerDone(t, outcome, emb) ==
    /\ pc[t] = "trigger"
    /\ LET hh == [h[t] EXCEPT !.refused = outcome # "run_id"]
       IN  IF trigger_crawl(outcome) = "None"
           THEN Return(t, url[t], CrawlFailed(cache, url[t]), "trigger_failed", emb, hh)
           ELSE LoopTop(t, 0, emb, hh)
    /\ UNCHANGED <<now, enabled, max_wait, matchVars, url, storeObs>>

\* "await asyncio.sleep(wait_interval)" returns, "elapsed += wait_interval",
\* and the status request is issued
SleepDone(t) ==
    /\ pc[t] = "sleep"
    /\ rested[t]
    /\ elapsed' = [elapsed EXCEPT ![t] = @ + wait_interval]
    /\ h' = [h EXCEPT ![t].iters = @ + 1]
    /\ pc' = [pc EXCEPT ![t] = "poll"]
    /\ UNCHANGED <<now, cache, disk, faults, enabled, max_wait, matchVars, url, rested, ret, storeObs>>

\* "status = await self.get_run_status(run_id)" returns
PollDone(t, status, emb) ==
    /\ pc[t] = "poll"
    /\ LET hh == [h[t] EXCEPT !.seen = IF status \in Watched THEN status ELSE ""]
       IN  IF status = "None"
           THEN LoopTop(t, elapsed[t], emb, hh)
           ELSE IF StatusException(status) # "none"
           THEN IF ExceptCatches(StatusException(status))
                THEN Return(t, url[t], CrawlFailed(cache, url[t]), "exception", emb, hh)
                ELSE /\ pc' = [pc EXCEPT ![t] = "raised"]
                     /\ h' = [h EXCEPT ![t] = hh]
                     /\ UNCHANGED <<cache, disk, faults, ret, elapsed, rested>>
           ELSE IF status = "SUCCEEDED"
           THEN /\ pc' = [pc EXCEPT ![t] = "fetch"]
                /\ h' = [h EXCEPT ![t] = hh]
                /\ UNCHANGED <<cache, disk, faults, ret, elapsed, rested>>
           ELSE IF status \in FailedStatuses
           THEN Return(t, url[t], CrawlFailed(cache, url[t]), "status_failed", emb, hh)
           ELSE LoopTop(t, elapsed[t], emb, hh)
    /\ UNCHANGED <<now, enabled, max_wait, matchVars, url, storeObs>>

\* "results = await self.fetch_results(run_id)" returns; the results are
\* processed and stored and crawl_url_sync returns (no await in between)
FetchDone(t, results, emb) ==
    /\ pc[t] = "fetch"
    /\ Return(t, url[t], CrawlSucceeded(cache, url[t], results, emb), "fetched", emb, h[t])
    /\ UNCHANGED <<now, enabled, max_wait, matchVars, url, storeObs>>

\* the request task is cancelled at an await: CancelledError is no
\* Exception, so no except clause of crawl_url_sync runs
Cancel(t) ==
    /\ pc[t] \in InCrawl
    /\ pc' = [pc EXCEPT ![t] = "cancelled"]
    /\ UNCHANGED <<now, cache, disk, faults, enabled, max_wait, matchVars, url, elapsed, rested, ret, h, storeObs>>

\* the process stops, and every coroutine in flight with it, and starts
\* again: PageContextStorage.__init__ loads the file
Restart ==
    /\ cache' = _load(disk)
    /\ pc' = [t \in Tasks |-> IF pc[t] \in InCrawl THEN "cancelled" ELSE pc[t]]
    /\ UNCHANGED <<now, disk, faults, enabled, max_wait, matchVars, url, elapsed, rested, ret, h, storeObs>>

\* the clock steps the model takes
TickSteps == {wait_interval, CRAWLING_STALE_SECS, PAGE_CONTEXT_CACHE_TTL}

\* how many steps of each size the clock has taken
ShortTicks == (now % CRAWLING_STALE_SECS) \div wait_interval
StaleTicks == (now % PAGE_CONTEXT_CACHE_TTL) \div CRAWLING_STALE_SECS
TtlTicks == now \div PAGE_CONTEXT_CACHE_TTL

\* time passes
Tick(d) ==
    /\ d = wait_interval => ShortTicks < MaxShortTicks
    /\ d = CRAWLING_STALE_SECS => StaleTicks < MaxStaleTicks
    /\ d = PAGE_CONTEXT_CACHE_TTL => TtlTicks < MaxTtlTicks
    /\ now' = now + d
    /\ rested' = [t \in Tasks |-> rested[t] \/ (pc[t] = "sleep" /\ d >= wait_interval)]
    /\ h' = [t \in Tasks |-> [h[t] EXCEPT !.moved = @ \/ pc[t] \in InCrawl]]
    /\ UNCHANGED <<cache, disk, faults, enabled, max_wait, matchVars, pc, url, elapsed, ret, storeObs>>

Init ==
    /\ now = 0
    /\ cache = clear_all
    /\ disk = File(clear_all)
    /\ faults = 0
    /\ enabled \in BOOLEAN
    /\ max_wait \in TimeoutChoices
    /\ pc = [t \in Tasks |-> "idle"]
    /\ url = [t \in Tasks |-> NullUrl]
    /\ elapsed = [t \in Tasks |-> 0]
    /\ rested = [t \in Tasks |-> FALSE]
    /\ ret = [t \in Tasks |-> NoReturn]
    /\ h = [t \in Tasks |-> NoCall]
    /\ stored = [k \in Keys |-> NoContext]
    /\ last = NoOp
    /\ args = NoArgs
    /\ result = NoResult

\* The request-serving process: ad requests call get_or_enrich; nothing in
\* the repository calls invalidate or clear_all.
Next ==
    \/ \E t \in Tasks, u \in RequestUrls, emb \in EmbeddingOutcomes : Start(t, u, emb)
    \/ \E t \in Tasks, o \in TriggerOutcomes, emb \in EmbeddingOutcomes : TriggerDone(t, o, emb)
    \/ \E t \in Tasks : SleepDone(t)
    \/ \E t \in Tasks, s \in StatusOutcomes, emb \in EmbeddingOutcomes : PollDone(t, s, emb)
    \/ \E t \in Tasks, r \in FetchOutcomes, emb \in EmbeddingOutcomes : FetchDone(t, r, emb)
    \/ \E t \in Tasks : Cancel(t)
    \/ Restart
    \/ \E d \in TickSteps : Tick(d)

Spec == Init /\ [][Next]_vars

\* ------------------------------------------------- the store's operations
\* PageContextStorage called directly, operation by operation, with every
\* URL of Urls.  `last` records the call and what it returned.

\* the write of a mutating operation, with the outcome named
Saved(outcome) ==
    /\ faults + Fault(outcome) <= MaxSaveFaults
    /\ faults' = faults + Fault(outcome)
    /\ disk' = _save(cache', disk, outcome)

\* store_enriched_context(EnrichedPageContext(u, content, embedding))
StoreEnrichedContext(u, content, embedding, outcome) ==
    LET ctx == EnrichedPageContext(u, content, embedding)
    IN  /\ cache' = store_enriched_context(cache, ctx)
        /\ Saved(outcome)
        /\ stored' = [stored EXCEPT ![_normalize_url(u)] = ctx]
        /\ last' = [NoOp EXCEPT !.op = "store_enriched_context", !.url = u, !.ctx = ctx]
        /\ UNCHANGED <<now, enabled, max_wait, matchVars, taskVars>>

\* set_crawling_status(u, flag)
SetCrawlingStatus(u, flag, outcome) ==
    /\ cache' = set_crawling_status(cache, u, flag)
    /\ Saved(outcome)
    /\ last' = [NoOp EXCEPT !.op = "set_crawling_status", !.url = u, !.flag = flag]
    /\ UNCHANGED <<now, enabled, max_wait, matchVars, taskVars, stored>>

\* invalidate(u); it writes nothing when the URL is not cached
Invalidate(u, outcome) ==
    /\ cache' = invalidate(cache, u)
    /\ IF _normalize_url(u) \in DOMAIN cache
       THEN Saved(outcome)
       ELSE UNCHANGED <<disk, faults>>
    /\ stored' = [stored EXCEPT ![_normalize_url(u)] = NoContext]
    /\ last' = [NoOp EXCEPT !.op = "invalidate", !.url = u]
    /\ UNCHANGED <<now, enabled, max_wait, matchVars, taskVars>>

\* clear_all()
ClearAll(outcome) ==
    /\ cache' = clear_all
    /\ Saved(outcome)
    /\ stored' = [k \in Keys |-> NoContext]
    /\ last' = [NoOp EXCEPT !.op = "clear_all"]
    /\ UNCHANGED <<now, enabled, max_wait, matchVars, taskVars>>

\* get(u), faulty: an entry found expired is deleted
Get_Evicts(u) ==
    LET k == _normalize_url(u)
        expired == k \in DOMAIN cache /\ get(cache, u) = NoEntry
    IN  /\ last' = [NoOp EXCEPT !.op = "get", !.url = u, !.entry = get(cache, u)]
        /\ cache' = IF expired THEN invalidate(cache, u) ELSE cache
        /\ disk' = IF expired THEN File(cache') ELSE disk
        /\ UNCHANGED <<now, faults, enabled, max_wait, matchVars, taskVars, stored>>

\* get(u): no statement of it assigns to the cache or calls _save
Get(u) ==
    /\ last' = [NoOp EXCEPT !.op = "get", !.url = u, !.entry = get(cache, u)]
    /\ UNCHANGED <<now, cache, disk, faults, enabled, max_wait, matchVars, taskVars, stored>>

\* get_enriched(u)
GetEnriched(u) ==
    /\ last' = [NoOp EXCEPT !.op = "get_enriched", !.url = u, !.ctx = get_enriched(cache, u)]
    /\ UNCHANGED <<now, cache, disk, faults, enabled, max_wait, matchVars, taskVars, stored>>

\* is_being_crawled(u)
IsBeingCrawled(u) ==
    /\ last' = [NoOp EXCEPT !.op = "is_being_crawled", !.url = u,
                            !.answer = is_being_crawled(cache, u)]
    /\ UNCHANGED <<now, cache, disk, faults, enabled, max_wait, matchVars, taskVars, stored>>

\* the clock steps between direct calls: those around the TTL
StoreTickSteps == {wait_interval, PAGE_CONTEXT_CACHE_TTL}

\* the store does not read the crawler's configuration
StoreInit == Init /\ enabled /\ max_wait = wait_interval

\* The operations of the store over time, on a file system that accepts
\* every write.
StoreNext ==
    \/ \E u \in Urls, c \in Contents : StoreEnrichedContext(u, c, "vec", "written")
    \/ \E u \in Urls, f \in BOOLEAN : SetCrawlingStatus(u, f, "written")
    \/ \E u \in Urls : Invalidate(u, "written")
    \/ ClearAll("written")
    \/ \E u \in Urls : Get(u)
    \/ \E u \in Urls : GetEnriched(u)
    \/ \E u \in Urls : IsBeingCrawled(u)
    \/ \E d \in StoreTickSteps : Tick(d)

StoreSpec == StoreInit /\ [][StoreNext]_vars

\* ------------------------------------------------------------ persistence
\* The store and its file: the process starts on a file it finds, the
\* mutating operations write it, writes may fail, and the process starts
\* again.

\* the entries a file found at start may hold for a key
FileEntries(k) ==
    {PageContextCache(k, ctx, crawling, IF crawling THEN 0 ELSE None, 0) :
        ctx \in {NoContext} \cup {EnrichedPageContext(k, c, "vec") : c \in Contents},
        crawling \in BOOLEAN}

\* a record that lacks its url field
MalformedRecord == PageContextCache(NullUrl, NoContext, FALSE, None, 0)

\* the files the process may find at start: per key no record, a record
\* that PageContextCache(**cache_data) rejects, or an entry; or a file that
\* is no JSON
InitialFiles ==
    {Truncated} \cup
    UNION {{File(f) : f \in [D -> {MalformedRecord} \cup UNION {FileEntries(k) : k \in D}]} :
              D \in SUBSET Keys}

\* the files whose entries are filed under their own URL
WellKeyed(file) ==
    \A k \in DOMAIN file.records :
        Malformed(file.records[k]) \/ file.records[k].url = k

\* PageContextStorage.__init__: self._cache = {}, self._load()
Load ==
    /\ cache' = _load(disk)
    /\ last' = [NoOp EXCEPT !.op = "_load"]
    /\ stored' = [k \in Keys |-> NoContext]
    /\ UNCHANGED <<now, disk, faults, enabled, max_wait, matchVars, taskVars>>

\* the process starts on a file it finds: "self._cache = {}", with _load
\* about to run
PersistInit ==
    /\ now = 0
    /\ disk \in {file \in InitialFiles : WellKeyed(file)}
    /\ cache = clear_all
    /\ faults = 0
    /\ enabled = TRUE
    /\ max_wait = wait_interval
    /\ pc = [t \in Tasks |-> "idle"]
    /\ url = [t \in Tasks |-> NullUrl]
    /\ elapsed = [t \in Tasks |-> 0]
    /\ rested = [t \in Tasks |-> FALSE]
    /\ ret = [t \in Tasks |-> NoReturn]
    /\ h = [t \in Tasks |-> NoCall]
    /\ stored = [k \in Keys |-> NoContext]
    /\ last = NoOp
    /\ args = NoArgs
    /\ result = NoResult

\* the store has been constructed
Constructed == last.op # ""

\* The store is constructed, its mutating operations are called, and the
\* process starts again.
PersistNext ==
    \/ Load
    \/ Constructed /\ \E u \in Urls, c \in Contents, s \in SaveOutcomes :
                          StoreEnrichedContext(u, c, "vec", s)
    \/ Constructed /\ \E u \in Urls, f \in BOOLEAN, s \in SaveOutcomes :
                          SetCrawlingStatus(u, f, s)
    \/ Constructed /\ \E u \in Urls, s \in SaveOutcomes : Invalidate(u, s)
    \/ Constructed /\ \E s \in SaveOutcomes : ClearAll(s)

PersistSpec == PersistInit /\ [][PersistNext]_vars

\* ---------------------------------------------------------- normalization
\* _normalize_url applied to the URLs a page can have.

\* the paths of up to MaxPathLen characters: empty, or starting with '/'
Paths ==
    {<<>>} \cup
    UNION {{<<"/">> \o p : p \in [1..n -> {"/", "a"}]} : n \in 0..(MaxPathLen - 1)}

NormInputs ==
    {Url(p, q, f) : p \in Paths, q \in {"", "q=1"}, f \in {"", "top"}}

\* a URL arrives
NormInit ==
    /\ now = 0
    /\ cache = clear_all
    /\ disk = File(clear_all)
    /\ faults = 0
    /\ enabled = TRUE
    /\ max_wait = wait_interval
    /\ pc = [t \in Tasks |-> "idle"]
    /\ url \in [Tasks -> NormInputs]
    /\ elapsed = [t \in Tasks |-> 0]
    /\ rested = [t \in Tasks |-> FALSE]
    /\ ret = [t \in Tasks |-> NoReturn]
    /\ h = [t \in Tasks |-> NoCall]
    /\ stored = [k \in Keys |-> NoContext]
    /\ last = NoOp
    /\ args = NoArgs
    /\ result = NoResult

\* self._normalize_url(url)
NormalizeUrl(t) ==
    /\ last' = [NoOp EXCEPT !.op = "_normalize_url", !.url = url[t],
                            !.key = _normalize_url(url[t])]
    /\ UNCHANGED <<now, cache, disk, faults, enabled, max_wait, matchVars, taskVars, stored>>

NormNext == \E t \in Tasks : NormalizeUrl(t)

NormSpec == NormInit /\ [][NormNext]_vars

\* -------------------------------------------------------- product matcher
\* ProductMatcher.find_best_products as a function of its arguments.  A
\* string is the tuple of its characters, so that lower-casing and the
\* substring test "keyword in product_text" are computed, not assumed.  A
\* score is a number of ten-thousandths; the embeddings are integer vectors
\* of integral norm, so that every cosine, boost and penalty is exact.

\* 1.0 as a score
ScoreOne == 10000

\* None where a category is expected
NoCategory == "None"

\* str.lower() on the letters
UpperToLower ==
    [A |-> "a", B |-> "b", C |-> "c", D |-> "d", E |-> "e", F |-> "f",
     G |-> "g", H |-> "h", I |-> "i", J |-> "j", K |-> "k", L |-> "l",
     M |-> "m", N |-> "n", O |-> "o", P |-> "p", Q |-> "q", R |-> "r",
     S |-> "s", T |-> "t", U |-> "u", V |-> "v", W |-> "w", X |-> "x",
     Y |-> "y", Z |-> "z"]

lower(s) ==
    [i \in 1..Len(s) |-> IF s[i] \in DOMAIN UpperToLower
                         THEN UpperToLower[s[i]] ELSE s[i]]

\* keyword in text
In(keyword, text) ==
    \E i \in 1..(Len(text) - Len(keyword) + 1) :
        SubSeq(text, i, i + Len(keyword) - 1) = keyword

\* models.product.Product, the fields the matcher reads
Product(id, name, description, active, product_embedding) ==
    [id |-> id, name |-> name, description |-> description,
     active |-> active, product_embedding |-> product_embedding]

product_text_NoLower(product) == product.name \o <<" ">> \o product.description

\* f"{product.name} {product.description}".lower()
product_text(product) ==
    lower(product.name \o <<" ">> \o product.description)

exclude_keywords_by_topic ==
    [lifestyle |-> {<<"c","a","m","p","i","n","g">>,
                    <<"o","u","t","d","o","o","r">>,
                    <<"h","i","k","i","n","g">>,
                    <<"t","r","a","i","l">>,
                    <<"b","a","c","k","p","a","c","k","i","n","g">>,
                    <<"w","i","l","d","e","r","n","e","s","s">>,
                    <<"t","e","n","t">>,
                    <<"l","a","n","t","e","r","n">>,
                    <<"s","u","r","v","i","v","a","l">>,
                    <<"c","o","t">>,
                    <<"h","e","a","d","p","h","o","n","e">>,
                    <<"e","a","r","p","h","o","n","e">>,
                    <<"b","l","u","e","t","o","o","t","h">>,
                    <<"w","i","r","e","l","e","s","s">>,
                    <<"t","e","c","h","n","o","l","o","g","y">>,
                    <<"e","l","e","c","t","r","o","n","i","c">>,
                    <<"p","r","o","j","e","c","t","o","r">>,
                    <<"i","p","a","d">>,
                    <<"t","a","b","l","e","t">>,
                    <<"p","r","i","n","t","e","r">>},
     health |-> {<<"c","a","m","p","i","n","g">>,
                 <<"o","u","t","d","o","o","r">>,
                 <<"h","i","k","i","n","g">>,
                 <<"a","d","v","e","n","t","u","r","e">>,
                 <<"h","e","a","d","p","h","o","n","e">>,
                 <<"e","a","r","p","h","o","n","e">>,
                 <<"t","e","c","h","n","o","l","o","g","y">>,
                 <<"e","l","e","c","t","r","o","n","i","c">>},
     outdoor |-> {<<"h","e","a","d","p","h","o","n","e">>,
                  <<"e","a","r","p","h","o","n","e">>,
                  <<"i","p","a","d">>,
                  <<"t","a","b","l","e","t">>,
                  <<"p","r","i","n","t","e","r">>,
                  <<"p","r","o","j","e","c","t","o","r">>,
                  <<"t","e","c","h","n","o","l","o","g","y">>,
                  <<"e","l","e","c","t","r","o","n","i","c">>,
                  <<"b","e","d","d","i","n","g">>,
                  <<"c","o","m","f","o","r","t","e","r">>,
                  <<"p","i","l","l","o","w">>,
                  <<"m","i","r","r","o","r">>,
                  <<"v","a","s","e">>,
                  <<"s","i","l","v","e","r","w","a","r","e">>,
                  <<"d","e","c","o","r">>,
                  <<"f","u","r","n","i","t","u","r","e">>},
     technology |-> {<<"c","a","m","p","i","n","g">>,
                     <<"o","u","t","d","o","o","r">>,
                     <<"h","i","k","i","n","g">>,
                     <<"t","e","n","t">>,
                     <<"l","a","n","t","e","r","n">>,
                     <<"c","o","t">>,
                     <<"b","a","c","k","p","a","c","k","i","n","g">>,
                     <<"b","e","d","d","i","n","g">>,
                     <<"c","o","m","f","o","r","t","e","r">>,
                     <<"p","i","l","l","o","w">>,
                     <<"m","i","r","r","o","r">>,
                     <<"v","a","s","e">>,
                     <<"s","i","l","v","e","r","w","a","r","e">>,
                     <<"d","e","c","o","r">>,
                     <<"f","u","r","n","i","t","u","r","e">>}]

topic_category_map ==
    [lifestyle |-> "lifestyle", health |-> "lifestyle", outdoor |-> "outdoor",
     technology |-> "technology", tech |-> "technology"]

\* topic_category_map.get(topic)
topic_category(topic) ==
    IF topic \in DOMAIN topic_category_map
    THEN topic_category_map[topic] ELSE NoCategory

tech_keywords ==
    {<<"h","e","a","d","p","h","o","n","e">>,
     <<"e","a","r","p","h","o","n","e">>,
     <<"s","l","e","e","p"," ","h","e","a","d","p","h","o","n","e">>,
     <<"b","l","u","e","t","o","o","t","h"," ","h","e","a","d","p","h","o","n","e">>,
     <<"i","p","a","d">>,
     <<"t","a","b","l","e","t">>,
     <<"c","o","m","p","u","t","e","r">>,
     <<"l","a","p","t","o","p">>,
     <<"p","r","i","n","t","e","r">>,
     <<"p","r","o","j","e","c","t","o","r">>,
     <<"t","e","c","h">>,
     <<"e","l","e","c","t","r","o","n","i","c">>,
     <<"b","l","u","e","t","o","o","t","h">>,
     <<"w","i","r","e","l","e","s","s">>,
     <<"g","a","d","g","e","t">>,
     <<"c","a","m","e","r","a">>}

outdoor_keywords ==
    {<<"c","a","m","p","i","n","g">>,
     <<"o","u","t","d","o","o","r">>,
     <<"h","i","k","i","n","g">>,
     <<"t","r","a","i","l">>,
     <<"b","a","c","k","p","a","c","k","i","n","g">>,
     <<"w","i","l","d","e","r","n","e","s","s">>,
     <<"t","e","n","t">>,
     <<"l","a","n","t","e","r","n">>,
     <<"s","u","r","v","i","v","a","l">>,
     <<"c","o","t">>,
     <<"c","a","m","p","i","n","g"," ","c","o","t">>,
     <<"c","a","m","p","i","n","g"," ","t","e","n","t">>,
     <<"c","a","m","p","i","n","g"," ","l","i","g","h","t">>}

lifestyle_keywords ==
    {<<"b","e","d","d","i","n","g">>,
     <<"c","o","m","f","o","r","t","e","r">>,
     <<"p","i","l","l","o","w">>,
     <<"m","i","r","r","o","r">>,
     <<"v","a","s","e">>,
     <<"c","e","r","a","m","i","c"," ","v","a","s","e">>,
     <<"s","i","l","v","e","r","w","a","r","e">>,
     <<"d","e","c","o","r">>,
     <<"f","u","r","n","i","t","u","r","e">>,
     <<"h","o","m","e">>,
     <<"f","a","s","h","i","o","n">>,
     <<"b","e","a","u","t","y">>,
     <<"j","e","w","e","l","r","y">>,
     <<"n","e","c","k","l","a","c","e">>,
     <<"f","a","r","m","h","o","u","s","e">>,
     <<"i","r","r","e","g","u","l","a","r"," ","m","i","r","r","o","r">>}

_categorize_product_OutdoorFirst(product) ==
    IF \E keyword \in outdoor_keywords : In(keyword, product_text(product))
    THEN "outdoor"
    ELSE IF \E keyword \in tech_keywords : In(keyword, product_text(product))
    THEN "technology"
    ELSE IF \E keyword \in lifestyle_keywords : In(keyword, product_text(product))
    THEN "lifestyle"
    ELSE "other"

_categorize_product(product) ==
    IF \E keyword \in tech_keywords : In(keyword, product_text(product))
    THEN "technology"
    ELSE IF \E keyword \in outdoor_keywords : In(keyword, product_text(product))
    THEN "outdoor"
    ELSE IF \E keyword \in lifestyle_keywords : In(keyword, product_text(product))
    THEN "lifestyle"
    ELSE "other"

\* np.dot(a, b)
Dot(a, b) ==
    LET RECURSIVE Sum(_)
        Sum(n) == IF n = 0 THEN 0 ELSE a[n] * b[n] + Sum(n - 1)
    IN Sum(Len(a))

\* np.linalg.norm(a), for the vectors of integral norm
Norm(a) == CHOOSE n \in 0..Dot(a, a) : n * n = Dot(a, a)

Min(a, b) == IF a <= b THEN a ELSE b

Max(a, b) == IF a >= b THEN a ELSE b

cosine_similarity_NoFloor(vec1, vec2) ==
    IF vec1 = <<>> \/ vec2 = <<>> THEN 0
    ELSE IF Norm(vec1) = 0 \/ Norm(vec2) = 0 THEN 0
    ELSE Min(ScoreOne, (Dot(vec1, vec2) * ScoreOne) \div (Norm(vec1) * Norm(vec2)))

cosine_similarity(vec1, vec2) ==
    IF vec1 = <<>> \/ vec2 = <<>> THEN 0
    ELSE IF Norm(vec1) = 0 \/ Norm(vec2) = 0 THEN 0
    ELSE Max(0, Min(ScoreOne,
                    (Dot(vec1, vec2) * ScoreOne) \div (Norm(vec1) * Norm(vec2))))

\* page_categories of both functions: the categories the topics map to
page_categories(page_topics) ==
    {topic_category(page_topics[i]) : i \in 1..Len(page_topics)} \ {NoCategory}

preferred_category_SingleOnly(page_topics) ==
    IF Cardinality(page_categories(page_topics)) = 1
    THEN CHOOSE category \in page_categories(page_topics) : TRUE
    ELSE NoCategory

\* preferred_category of find_best_products: the only category of the
\* page, otherwise the category of the first topic
preferred_category(page_topics) ==
    IF Cardinality(page_categories(page_topics)) = 1
    THEN CHOOSE category \in page_categories(page_topics) : TRUE
    ELSE IF page_topics # <<>> THEN topic_category(page_topics[1])
    ELSE NoCategory

\* the topic filter of one product
excluded(product, page_topics) ==
    \E i \in 1..Len(page_topics) :
        /\ page_topics[i] \in DOMAIN exclude_keywords_by_topic
        /\ \E keyword \in exclude_keywords_by_topic[page_topics[i]] :
               In(keyword, product_text(product))

\* the product passes the "continue" tests of the loop and the threshold
appended(product, page_embedding, min_score, page_topics) ==
    /\ product.active
    /\ product.product_embedding # <<>>
    /\ ~ excluded(product, page_topics)
    /\ cosine_similarity(page_embedding, product.product_embedding) >= min_score

boosted_score(similarity, product_category, preferred) ==
    IF preferred # NoCategory
    THEN IF product_category = preferred
         THEN Min(ScoreOne, (similarity * 115) \div 100)
         ELSE IF product_category \in {"technology", "lifestyle", "outdoor"}
         THEN (similarity * 70) \div 100
         ELSE similarity
    ELSE similarity

\* the dictionary appended to scores
Scored(product, page_embedding, page_topics) ==
    LET similarity == cosine_similarity(page_embedding, product.product_embedding)
        product_category == _categorize_product(product)
    IN [product |-> product,
        score |-> boosted_score(similarity, product_category,
                                preferred_category(page_topics)),
        original_score |-> similarity,
        category |-> product_category]

\* list.sort, faulty: equal scores come out in reverse order
RECURSIVE sort_TiesReversed(_)
sort_TiesReversed(items) ==
    IF items = <<>> THEN <<>>
    ELSE LET before == sort_TiesReversed(SubSeq(items, 1, Len(items) - 1))
             item == items[Len(items)]
             n == Cardinality({i \in 1..Len(before) : before[i].score > item.score})
         IN SubSeq(before, 1, n) \o <<item>> \o SubSeq(before, n + 1, Len(before))

\* list.sort(key=score, reverse=True): stable, equal scores keep their order
RECURSIVE sort(_)
sort(items) ==
    IF items = <<>> THEN <<>>
    ELSE LET before == sort(SubSeq(items, 1, Len(items) - 1))
             item == items[Len(items)]
             n == Cardinality({i \in 1..Len(before) : before[i].score >= item.score})
         IN SubSeq(before, 1, n) \o <<item>> \o SubSeq(before, n + 1, Len(before))

\* scores, as handed to _diversify_by_topics
scores(page_embedding, products, min_score, page_topics) ==
    LET kept == SelectSeq(products,
                    LAMBDA product : appended(product, page_embedding,
                                              min_score, page_topics))
    IN sort([i \in 1..Len(kept) |-> Scored(kept[i], page_embedding, page_topics)])

Slice_Inclusive(items, n) == SubSeq(items, 1, Min(n + 1, Len(items)))

\* items[:n]
Slice(items, n) ==
    IF n >= 0 THEN SubSeq(items, 1, Min(n, Len(items)))
    ELSE SubSeq(items, 1, Max(0, Len(items) + n))

category_counts(page_topics) ==
    [category \in page_categories(page_topics) |->
        Cardinality({i \in 1..Len(page_topics) :
                        topic_category(page_topics[i]) = category})]

total_mapped_topics(page_topics) ==
    Cardinality({i \in 1..Len(page_topics) :
                    topic_category(page_topics[i]) # NoCategory})

\* max(category_counts.items(), key=count): the first of the largest
\* counts, in the order in which the categories entered the dictionary
dominant_category(page_topics) ==
    LET counts == category_counts(page_topics)
        first(category) ==
            CHOOSE i \in 1..Len(page_topics) :
                /\ topic_category(page_topics[i]) = category
                /\ \A j \in 1..(i - 1) : topic_category(page_topics[j]) # category
        largest == {c \in DOMAIN counts : \A d \in DOMAIN counts : counts[d] <= counts[c]}
    IN CHOOSE c \in largest : \A d \in largest : first(c) <= first(d)

\* dominant_ratio >= 0.66
dominates(page_topics) ==
    category_counts(page_topics)[dominant_category(page_topics)] * 100
        >= 66 * total_mapped_topics(page_topics)

\* is_single_category and preferred_category of _diversify_by_topics
is_single_category(page_topics) ==
    IF total_mapped_topics(page_topics) > 0 /\ dominates(page_topics) THEN TRUE
    ELSE Cardinality(page_categories(page_topics)) = 1

selection_category(page_topics) ==
    IF total_mapped_topics(page_topics) > 0 /\ dominates(page_topics)
    THEN dominant_category(page_topics)
    ELSE IF Cardinality(page_categories(page_topics)) = 1
    THEN CHOOSE category \in page_categories(page_topics) : TRUE
    ELSE NoCategory

single_category_result_ByScore(scores_, preferred, top_k) == Slice(scores_, top_k)

\* the single-category branch
single_category_result(scores_, preferred, top_k) ==
    LET preferred_products == SelectSeq(scores_, LAMBDA item : item.category = preferred)
        other_products == SelectSeq(scores_, LAMBDA item : item.category # preferred)
        result_ == Slice(preferred_products, top_k)
    IN Slice(IF Len(result_) < top_k /\ other_products # <<>>
             THEN result_ \o Slice(other_products, top_k - Len(result_))
             ELSE result_,
             top_k)

\* categorized[category]
categorized(scores_, category) ==
    SelectSeq(scores_, LAMBDA item : _categorize_product(item.product) = category)

\* the orders in which a set of strings can be iterated
Orders(set) ==
    {order \in [1..Cardinality(set) -> set] :
        \A i, j \in 1..Cardinality(set) : i # j => order[i] # order[j]}

\* priority_categories, page_categories being iterated in the given order
priority_categories(scores_, order) ==
    SelectSeq(order, LAMBDA category : categorized(scores_, category) # <<>>)

other_categories(scores_, page_topics) ==
    SelectSeq(<<"outdoor", "technology", "lifestyle", "other">>,
              LAMBDA category : /\ category \notin page_categories(page_topics)
                                /\ categorized(scores_, category) # <<>>)

used_product_ids(result_) == {result_[i].product.id : i \in 1..Len(result_)}

\* "for category in priority_categories": the next unused product of each
RECURSIVE priority_pass(_, _, _, _)
priority_pass(result_, categories, scores_, top_k) ==
    IF categories = <<>> \/ Len(result_) >= top_k THEN result_
    ELSE LET unused == SelectSeq(categorized(scores_, Head(categories)),
                           LAMBDA item : item.product.id \notin used_product_ids(result_))
         IN priority_pass(IF unused = <<>> THEN result_
                          ELSE Append(result_, Head(unused)),
                          Tail(categories), scores_, top_k)

RECURSIVE fill_pass_NoDedup(_, _, _)
fill_pass_NoDedup(result_, items, top_k) ==
    IF items = <<>> \/ Len(result_) >= top_k THEN result_
    ELSE fill_pass_NoDedup(Append(result_, Head(items)), Tail(items), top_k)

\* "for item in ...: if product_id not in used_product_ids: append", until
\* top_k is reached
RECURSIVE fill_pass(_, _, _)
fill_pass(result_, items, top_k) ==
    IF items = <<>> \/ Len(result_) >= top_k THEN result_
    ELSE fill_pass(IF Head(items).product.id \notin used_product_ids(result_)
                   THEN Append(result_, Head(items)) ELSE result_,
                   Tail(items), top_k)

\* the products of the other categories, in the order of the loop
RECURSIVE other_products_of(_, _)
other_products_of(scores_, categories) ==
    IF categories = <<>> THEN <<>>
    ELSE categorized(scores_, Head(categories))
             \o other_products_of(scores_, Tail(categories))

\* one turn of "while len(result) < top_k and round_num < max_rounds"
one_round(result_, scores_, priority, others, top_k) ==
    LET after_priority == priority_pass(result_, priority, scores_, top_k)
        after_others ==
            IF Len(after_priority) < top_k
            THEN fill_pass(after_priority, other_products_of(scores_, others), top_k)
            ELSE after_priority
    IN IF Len(after_others) < top_k
       THEN fill_pass(after_others, scores_, top_k)
       ELSE after_others

RECURSIVE rounds(_, _, _, _, _, _)
rounds(result_, round_num, scores_, priority, others, top_k) ==
    IF Len(result_) < top_k /\ round_num < top_k
    THEN rounds(one_round(result_, scores_, priority, others, top_k),
                round_num + 1, scores_, priority, others, top_k)
    ELSE result_

multi_category_result_ByScore(scores_, page_topics, top_k, order) ==
    Slice(scores_, top_k)

\* the multi-category branch
multi_category_result(scores_, page_topics, top_k, order) ==
    Slice(rounds(<<>>, 0, scores_, priority_categories(scores_, order),
                 other_categories(scores_, page_topics), top_k),
          top_k)

_diversify_by_topics(scores_, page_topics, top_k, order) ==
    IF page_topics = <<>> THEN Slice(scores_, top_k)
    ELSE IF is_single_category(page_topics)
            /\ selection_category(page_topics) # NoCategory
    THEN single_category_result(scores_, selection_category(page_topics), top_k)
    ELSE multi_category_result(scores_, page_topics, top_k, order)

find_best_products(page_embedding, products, top_k, min_score, page_topics, order) ==
    IF page_embedding = <<>> THEN Returned(<<>>, <<>>)
    ELSE IF page_topics.is_none THEN RaisedTypeError
    ELSE LET scores_ == scores(page_embedding, products, min_score, page_topics.list)
         IN Returned(_diversify_by_topics(scores_, page_topics.list, top_k, order),
                     scores_)

\* the page embeddings: absent, zero, and a unit vector
PageEmbeddings == {<<>>, <<0, 0>>, <<1, 0>>}

\* the catalog the product lists are drawn from: two outdoor products, two
\* technology products, a product of no category, an inactive product, a
\* product without embedding and a product with a zero embedding
Catalog ==
    <<Product("p1", <<"T","r","a","i","l"," ","S","h","o","e","s">>, <<>>, TRUE, <<3, 4>>),
      Product("p2", <<"K","i","t">>, <<"f","o","r"," ","S","U","R","V","I","V","A","L">>, TRUE, <<4, 3>>),
      Product("p3", <<"L","a","p","t","o","p">>, <<>>, TRUE, <<24, 7>>),
      Product("p4", <<"W","i","r","e","l","e","s","s"," ","H","e","a","d","p","h","o","n","e","s">>, <<>>, TRUE, <<1, 0>>),
      Product("p5", <<"M","u","g">>, <<>>, TRUE, <<1, 0>>),
      Product("p6", <<"C","a","m","e","r","a">>, <<>>, FALSE, <<1, 0>>),
      Product("p7", <<"G","a","d","g","e","t">>, <<>>, TRUE, <<>>),
      Product("p8", <<"C","o","m","p","u","t","e","r">>, <<>>, TRUE, <<0, 0>>)>>

\* the lists of up to MaxProducts products of the catalog, in its order
ProductLists ==
    UNION {{[i \in 1..n |-> Catalog[pick[i]]] :
               pick \in {f \in [1..n -> 1..Len(Catalog)] :
                            \A i, j \in 1..n : i < j => f[i] < f[j]}} :
           n \in 0..MaxProducts}

\* the topics of a page: with and without exclusion list, mapped to a
\* category and not
TopicNames == {"outdoor", "technology", "tech", "business"}

TopicLists ==
    {NoneTopics} \cup
    UNION {{TopicList(list) : list \in [1..n -> TopicNames]} : n \in 0..MaxTopics}

\* min_score: the default 0.0, and 0.7
MinScores == {0, 7000}

MatchInputs ==
    [page_embedding : PageEmbeddings, products : ProductLists,
     top_k : 0..MaxTopK, min_score : MinScores, page_topics : TopicLists]

\* a call of find_best_products is about to be made
MatchInit ==
    /\ now = 0
    /\ cache = clear_all
    /\ disk = File(clear_all)
    /\ faults = 0
    /\ enabled = TRUE
    /\ max_wait = wait_interval
    /\ pc = [t \in Tasks |-> "idle"]
    /\ url = [t \in Tasks |-> NullUrl]
    /\ elapsed = [t \in Tasks |-> 0]
    /\ rested = [t \in Tasks |-> FALSE]
    /\ ret = [t \in Tasks |-> NoReturn]
    /\ h = [t \in Tasks |-> NoCall]
    /\ stored = [k \in Keys |-> NoContext]
    /\ last = NoOp
    /\ args \in MatchInputs
    /\ result = NoResult

\* product_matcher.find_best_products(...), the set page_categories being
\* iterated in the given order
FindBestProducts(order) ==
    /\ result = NoResult
    /\ result' = find_best_products(args.page_embedding, args.products, args.top_k,
                                    args.min_score, args.page_topics, order)
    /\ UNCHANGED <<now, cache, disk, faults, enabled, max_wait, taskVars, storeObs, args>>

MatchNext ==
    \E order \in Orders(page_categories(args.page_topics.list)) :
        FindBestProducts(order)

MatchSpec == MatchInit /\ [][MatchNext]_vars


\* ------------------------------------------ _categorize_product on its own

\* words of product names and descriptions: with a technology keyword, an
\* outdoor keyword, a lifestyle keyword, none; in upper case; with a keyword
\* inside a longer word
Words ==
    {<<"W","i","r","e","l","e","s","s">>, <<"T","e","n","t">>, <<"P","i","l","l","o","w">>, <<"M","u","g">>, <<"H","O","M","E">>, <<"C","o","t","t","o","n">>, <<"B","i","o","t","e","c","h">>, <<"L","a","m","p">>}

CategorizeInputs ==
    {Product("p", name, description, TRUE, <<>>) :
        name \in Words, description \in Words \cup {<<>>}}

\* the category _categorize_product returned
Categorized(category) == [status |-> "categorized", category |-> category]

\* a call of _categorize_product is about to be made
CategorizeInit ==
    /\ now = 0
    /\ cache = clear_all
    /\ disk = File(clear_all)
    /\ faults = 0
    /\ enabled = TRUE
    /\ max_wait = wait_interval
    /\ pc = [t \in Tasks |-> "idle"]
    /\ url = [t \in Tasks |-> NullUrl]
    /\ elapsed = [t \in Tasks |-> 0]
    /\ rested = [t \in Tasks |-> FALSE]
    /\ ret = [t \in Tasks |-> NoReturn]
    /\ h = [t \in Tasks |-> NoCall]
    /\ stored = [k \in Keys |-> NoContext]
    /\ last = NoOp
    /\ args \in [product : CategorizeInputs]
    /\ result = NoResult

\* self._categorize_product(product)
CategorizeProduct ==
    /\ result = NoResult
    /\ result' = Categorized(_categorize_product(args.product))
    /\ UNCHANGED <<now, cache, disk, faults, enabled, max_wait, taskVars, storeObs, args>>

CategorizeNext == CategorizeProduct

CategorizeSpec == CategorizeInit /\ [][CategorizeNext]_vars

\* ------------------------------------------- cosine_similarity on its own

\* the vectors of up to MaxDim components in -MaxCoord..MaxCoord whose norm
\* is an integer, the empty vector and the zero vectors among them
Vectors ==
    UNION {{v \in [1..n -> (0 - MaxCoord)..MaxCoord] :
                \E r \in 0..(MaxCoord * MaxDim) : r * r = Dot(v, v)} :
           n \in 0..MaxDim}

\* the float cosine_similarity returned
Similarity(value) == [status |-> "similarity", value |-> value]

\* np.dot(a, b) on arrays of different lengths raises ValueError
RaisedValueError == [status |-> "raised", value |-> 0]

\* the outcome of cosine_similarity(vec1, vec2): the empty and zero-norm
\* checks come before np.dot
cosine_similarity_outcome(vec1, vec2) ==
    IF /\ vec1 # <<>> /\ vec2 # <<>>
       /\ Norm(vec1) # 0 /\ Norm(vec2) # 0
       /\ Len(vec1) # Len(vec2)
    THEN RaisedValueError
    ELSE Similarity(cosine_similarity(vec1, vec2))

\* a call of cosine_similarity is about to be made
CosineInit ==
    /\ now = 0
    /\ cache = clear_all
    /\ disk = File(clear_all)
    /\ faults = 0
    /\ enabled = TRUE
    /\ max_wait = wait_interval
    /\ pc = [t \in Tasks |-> "idle"]
    /\ url = [t \in Tasks |-> NullUrl]
    /\ elapsed = [t \in Tasks |-> 0]
    /\ rested = [t \in Tasks |-> FALSE]
    /\ ret = [t \in Tasks |-> NoReturn]
    /\ h = [t \in Tasks |-> NoCall]
    /\ stored = [k \in Keys |-> NoContext]
    /\ last = NoOp
    /\ args \in [vec1 : Vectors, vec2 : Vectors]
    /\ result = NoResult

\* ProductMatcher.cosine_similarity(vec1, vec2)
CosineSimilarity ==
    /\ result = NoResult
    /\ result' = cosine_similarity_outcome(args.vec1, args.vec2)
    /\ UNCHANGED <<now, cache, disk, faults, enabled, max_wait, taskVars, storeObs, args>>

CosineNext == CosineSimilarity

CosineSpec == CosineInit /\ [][CosineNext]_vars

\* ------------------------------ find_best_products on lists in any order

\* the lists of up to MaxProducts different products of the catalog, in
\* every order
PermutedLists ==
    UNION {{[i \in 1..n |-> Catalog[pick[i]]] :
               pick \in {f \in [1..n -> 1..Len(Catalog)] :
                            \A i, j \in 1..n : i # j => f[i] # f[j]}} :
           n \in 0..MaxProducts}

\* calls with a page embedding and the default min_score
PermInputs ==
    [page_embedding : {<<1, 0>>}, products : PermutedLists,
     top_k : 0..MaxTopK, min_score : {0}, page_topics : TopicLists]

\* a call of find_best_products is about to be made
PermInit ==
    /\ now = 0
    /\ cache = clear_all
    /\ disk = File(clear_all)
    /\ faults = 0
    /\ enabled = TRUE
    /\ max_wait = wait_interval
    /\ pc = [t \in Tasks |-> "idle"]
    /\ url = [t \in Tasks |-> NullUrl]
    /\ elapsed = [t \in Tasks |-> 0]
    /\ rested = [t \in Tasks |-> FALSE]
    /\ ret = [t \in Tasks |-> NoReturn]
    /\ h = [t \in Tasks |-> NoCall]
    /\ stored = [k \in Keys |-> NoContext]
    /\ last = NoOp
    /\ args \in PermInputs
    /\ result = NoResult

PermSpec == PermInit /\ [][MatchNext]_vars
\* ---------------------------------------------------------------- claims

\* the normalized URL of a task's request
KeyOf(t) == _normalize_url(url[t])

\* the raw entry of a normalized URL is flagged as crawling by a trigger
\* less than CRAWLING_STALE_SECS old
FlaggedRecently(k) ==
    /\ k \in DOMAIN cache
    /\ cache[k].is_crawling
    /\ cache[k].last_crawl_triggered # None
    /\ now - cache[k].last_crawl_triggered < CRAWLING_STALE_SECS

\* ceil(a / b)
CeilDiv(a, b) == (a + b - 1) \div b

\* C1: in every reachable state at most one crawl_url_sync invocation is
\* active for any normalized URL.
C1_SingleFlight ==
    \A k \in Keys : Cardinality(ActiveOn(k)) <= 1

\* C2: of two get_or_enrich calls for a URL without cache entry, the
\* second made at the instant of the first while the first is suspended in
\* its crawl, exactly one sends a trigger request.
C2_ExactlyOneTrigger ==
    \A a \in Tasks, b \in Tasks :
        (h[a].cold /\ a \in h[b].twin)
        => Cardinality({t \in {a, b} : h[t].sent}) = 1

\* C2 witness: both calls have returned, the first one crawled, the second
\* one, made at the same instant while the first awaited, sent nothing.
C2_Witness ==
    \E a \in Tasks, b \in Tasks :
        /\ h[a].cold /\ a \in h[b].twin
        /\ pc[a] = "done" /\ pc[b] = "done"
        /\ h[a].sent /\ ~ h[b].sent

\* C3: a call that arrives while a crawl for its URL is in flight does not
\* return before that crawl has returned, and reports an enriched context
\* when that crawl returned one.
C3_LateArrivalWaits ==
    \A b \in Tasks :
        pc[b] = "done" =>
            \A a \in h[b].joined :
                /\ pc[a] \notin InCrawl
                /\ h[a].got => ret[b].has_enriched

\* C4: whenever crawl_url_sync returns, the entry of its URL is not
\* flagged as crawling.
C4_FlagClearedOnReturn ==
    [][\A t \in Tasks :
          (pc'[t] = "done" /\ pc[t] # "done" /\ h'[t].called)
          => LET k == _normalize_url(url'[t])
             IN  k \in DOMAIN cache' => ~ cache'[k].is_crawling]_vars

\* C4 witness: a crawl has returned on the timeout path and on the
\* exception path, and the flag is down.
C4_Witness ==
    \E a \in Tasks, b \in Tasks :
        /\ pc[a] = "done" /\ h[a].exit = "timeout"
        /\ pc[b] = "done" /\ h[b].exit = "exception"
        /\ KeyOf(a) \in DOMAIN cache /\ ~ cache[KeyOf(a)].is_crawling

\* C5: is_being_crawled(url) is true exactly when the entry of the
\* normalized URL is flagged as crawling by a trigger less than 300 s old,
\* whatever the age of the entry.
C5_IsBeingCrawledIff ==
    \A u \in Urls : is_being_crawled(cache, u) <=> FlaggedRecently(_normalize_url(u))

\* C6: a flag whose trigger is 300 s old or older does not make
\* is_being_crawled true, and a call that finds such a flag and no cached
\* context calls crawl_url_sync, which sends a new trigger request.
C6_StaleFlagDoesNotBlock ==
    /\ \A u \in Urls :
          LET k == _normalize_url(u)
          IN  (k \in DOMAIN cache /\ cache[k].is_crawling /\ ~ FlaggedRecently(k))
              => ~ is_being_crawled(cache, u)
    /\ \A t \in Tasks : h[t].stuck => (h[t].called /\ h[t].sent)

\* C6 witness: a call found a stale flag and no context, and crawled.
C6_Witness ==
    \E t \in Tasks : h[t].stuck /\ h[t].sent /\ pc[t] \in InCrawl

\* C7: after store_enriched_context(ctx), get of any URL with the same
\* normalized form returns an entry holding ctx while now - cached_at <=
\* TTL, and nothing once now - cached_at > TTL.
C7_RoundTrip ==
    \A k \in Keys :
        stored[k] # NoContext =>
            /\ k \in DOMAIN cache
            /\ \A u \in Urls :
                  _normalize_url(u) = k =>
                      IF now - cache[k].cached_at <= PAGE_CONTEXT_CACHE_TTL
                      THEN /\ get(cache, u) # NoEntry
                           /\ get(cache, u).enriched_context = stored[k]
                      ELSE get(cache, u) = NoEntry

\* C7 witness: a context stored under one spelling is returned for
\* another spelling at the age of exactly TTL.
C7_Witness ==
    /\ stored[UrlA].url = UrlASlashFrag
    /\ now - cache[UrlA].cached_at = PAGE_CONTEXT_CACHE_TTL
    /\ get(cache, UrlA).enriched_context = stored[UrlA]

\* C8: a call calls crawl_url_sync exactly when, as it is made, the store
\* holds no unexpired enriched context for its URL and is_being_crawled is
\* false; a call that finds an unexpired context returns at once with
\* has_enriched and sends nothing to the crawl backend.
C8_CrawlIff ==
    \A t \in Tasks :
        pc[t] # "idle" =>
            /\ h[t].called <=> (~ h[t].hadCtx /\ ~ h[t].being)
            /\ h[t].hadCtx => (pc[t] = "done" /\ ret[t].has_enriched /\ ~ h[t].sent)

\* C8 witness: one call crawled and stored, another was served from the
\* cache.
C8_Witness ==
    \E a \in Tasks, b \in Tasks :
        /\ h[a].called /\ h[a].got
        /\ h[b].hadCtx /\ ~ h[b].called /\ ret[b].has_enriched

\* C9: get_or_enrich never raises, and what it returns is a merged
\* context: the fields of an enriched context with has_enriched, or the
\* request URL with empty fields and has_enriched false.
C9_NeverRaises ==
    \A t \in Tasks :
        /\ pc[t] # "raised"
        /\ pc[t] = "done" =>
              IF ret[t].has_enriched
              THEN ret[t].content \in Contents /\ _normalize_url(ret[t].url) = KeyOf(t)
              ELSE ret[t].content = "None" /\ ret[t].url = url[t]

\* C9 witness: calls have returned without enrichment after a status
\* payload that raised inside crawl_url_sync and after an overall timeout.
C9_Witness ==
    \E a \in Tasks, b \in Tasks :
        /\ pc[a] = "done" /\ h[a].exit = "exception" /\ ~ ret[a].has_enriched
        /\ pc[b] = "done" /\ h[b].exit = "timeout" /\ ~ ret[b].has_enriched

\* C10: a crawl performs at most ceil(max_wait / 5) sleep-and-poll
\* iterations; when the loop ends on the timeout it has performed exactly
\* that many, and crawl_url_sync returns no context.
C10_BoundedPolling ==
    \A t \in Tasks :
        /\ h[t].iters <= CeilDiv(max_wait, wait_interval)
        /\ h[t].exit = "timeout" =>
              /\ pc[t] = "done"
              /\ h[t].iters = CeilDiv(max_wait, wait_interval)
              /\ ~ h[t].got

\* C10 witness: a crawl whose timeout the interval does not divide has
\* timed out.
C10_Witness ==
    \E t \in Tasks :
        /\ h[t].exit = "timeout"
        /\ max_wait % wait_interval # 0
        /\ h[t].iters = CeilDiv(max_wait, wait_interval)
        /\ pc[t] = "done"

\* the contexts agree in the fields a crawl delivers (the embedding is
\* back-filled by get_enriched_context)
SameContent(x, y) == x.url = y.url /\ x.content = y.content

\* the raw cache holds an enriched context for a URL that has not expired
HoldsUnexpired(c, u) ==
    LET k == _normalize_url(u)
    IN  /\ k \in DOMAIN c
        /\ c[k].enriched_context # NoContext
        /\ now - c[k].cached_at <= PAGE_CONTEXT_CACHE_TTL

\* the mutating operations of the store
MutatingOps == {"set_crawling_status", "store_enriched_context", "invalidate", "clear_all"}

\* the read operations of the store
ReadOps == {"get", "get_enriched", "is_being_crawled"}

\* C11, as stated: once a poll has returned SUCCEEDED, FAILED, ABORTED or
\* TIMED_OUT, the crawl does not sleep and poll again: it is fetching the
\* results (SUCCEEDED) or has returned.
C11_TerminalStatusStopsPolling ==
    \A t \in Tasks :
        h[t].seen \in {"SUCCEEDED", "FAILED", "ABORTED", "TIMED_OUT"}
        => /\ pc[t] \in {"fetch", "cancelled"}
           /\ pc[t] = "fetch" => h[t].seen = "SUCCEEDED"

\* C11, amended: once a poll has returned SUCCEEDED, FAILED, ABORTED or
\* TIMED-OUT (the status as the crawl backend spells it), the crawl does
\* not sleep and poll again: after SUCCEEDED it is fetching the results or
\* has returned, after the others it returned in the step that received the
\* status.
C11_BackendTerminalStatusStopsPolling ==
    \A t \in Tasks :
        /\ h[t].seen \in {"SUCCEEDED", "FAILED", "ABORTED", "TIMED-OUT"}
           => /\ pc[t] \in {"fetch", "cancelled"}
              /\ h[t].seen = "SUCCEEDED"
        /\ h[t].exit \in {"status_failed", "fetched"} => pc[t] = "done"

\* C11 witness: with a timeout that leaves room for a second iteration, one
\* crawl returned in its first iteration on a failed status and another in
\* its first iteration after SUCCEEDED and the fetch.
C11_Witness ==
    \E a \in Tasks, b \in Tasks :
        /\ max_wait > wait_interval
        /\ pc[a] = "done" /\ h[a].exit = "status_failed" /\ h[a].iters = 1
        /\ pc[b] = "done" /\ h[b].exit = "fetched" /\ h[b].iters = 1

\* C12: when the trigger request yields no run id, crawl_url_sync returns
\* in that step, without a poll or a fetch and without a context, the entry
\* of its URL is not flagged as crawling, and the enriched context the
\* entry held is the one it holds; marking the URL before the trigger left
\* that context alone too.
C12_TriggerFailureReturnsAtOnce ==
    [][\A t \in Tasks :
          LET k == _normalize_url(url'[t])
              before == IF k \in DOMAIN cache THEN cache[k].enriched_context ELSE NoContext
          IN  /\ (h'[t].refused /\ ~ h[t].refused)
                 => /\ pc'[t] = "done"
                    /\ h'[t].exit = "trigger_failed"
                    /\ h'[t].iters = 0
                    /\ ~ h'[t].got
                    /\ k \in DOMAIN cache'
                    /\ ~ cache'[k].is_crawling
                    /\ SameContent(cache'[k].enriched_context, before)
              /\ (pc[t] = "idle" /\ pc'[t] = "trigger")
                 => cache'[k].enriched_context = before]_vars

\* C12 witness: a crawl whose trigger failed has returned, and the expired
\* context of its URL is still in the entry.
C12_Witness ==
    \E t \in Tasks :
        /\ h[t].refused /\ pc[t] = "done" /\ ~ ret[t].has_enriched
        /\ KeyOf(t) \in DOMAIN cache
        /\ cache[KeyOf(t)].enriched_context # NoContext
        /\ ~ cache[KeyOf(t)].is_crawling

\* C13: when crawl_url_sync issues the trigger request, the entry of its
\* URL is flagged as crawling with the present time as trigger time, and
\* the file holds the cache with that change.
C13_MarkedBeforeTrigger ==
    [][\A t \in Tasks :
          (pc[t] = "idle" /\ pc'[t] = "trigger")
          => LET k == _normalize_url(url'[t])
             IN  /\ k \in DOMAIN cache'
                 /\ cache'[k].is_crawling
                 /\ cache'[k].last_crawl_triggered = now
                 /\ disk' = File(cache')]_vars

\* C14: when get_or_enrich returns, it returns the fields of the unexpired
\* enriched context the store holds for its URL at that moment, with
\* has_enriched, if there is one, and the request URL with empty fields
\* and has_enriched false if there is none.
C14_HasEnrichedIffStored ==
    [][\A t \in Tasks :
          (pc[t] # "done" /\ pc'[t] = "done")
          => LET u == url'[t]
                 k == _normalize_url(u)
             IN  IF HoldsUnexpired(cache', u)
                 THEN ret'[t] = [url |-> cache'[k].enriched_context.url,
                                 content |-> cache'[k].enriched_context.content,
                                 has_enriched |-> TRUE]
                 ELSE ret'[t] = [url |-> u, content |-> "None",
                                 has_enriched |-> FALSE]]_vars

\* C14 witness: a call whose own crawl failed at the trigger returned the
\* context another crawl had stored meanwhile.
C14_Witness ==
    \E t \in Tasks :
        /\ pc[t] = "done" /\ h[t].exit = "trigger_failed"
        /\ ret[t].has_enriched
        /\ KeyOf(t) \in DOMAIN cache
        /\ ret[t].content = cache[KeyOf(t)].enriched_context.content

\* C15: store_enriched_context(ctx) leaves one entry for the normalized
\* ctx.url, filed under the normalized URL and under no other spelling,
\* holding ctx with is_crawling false and cached_at = now, whatever was
\* there before; no other entry changes; storing ctx once more leaves the
\* cache as it is.
C15_StoreIsIdempotentUpsert ==
    [][(now' = now /\ last'.op = "store_enriched_context")
       => LET k == _normalize_url(last'.url)
          IN  /\ DOMAIN cache' = DOMAIN cache \cup {k}
              /\ \A x \in DOMAIN cache' : _normalize_url(x) = k => x = k
              /\ cache'[k].url = k
              /\ cache'[k].enriched_context = last'.ctx
              /\ ~ cache'[k].is_crawling
              /\ cache'[k].cached_at = now
              /\ \A x \in DOMAIN cache \ {k} : cache'[x] = cache[x]
              /\ store_enriched_context(cache', last'.ctx) = cache']_vars

\* C15 witness: a context was stored, under a spelling that is not the
\* normalized one, over an older entry that was flagged as crawling, while
\* another URL has an entry.
C15_Witness ==
    /\ last.op = "store_enriched_context"
    /\ last.url = UrlASlashFrag
    /\ UrlA \in DOMAIN cache
    /\ cache[UrlA].enriched_context = last.ctx
    /\ cache[UrlA].cached_at = now
    /\ now > 0
    /\ _normalize_url(UrlB) \in DOMAIN cache
    /\ cache[_normalize_url(UrlB)].is_crawling

\* C16: set_crawling_status(url, flag) on an entry that exists sets
\* is_crawling to flag, sets last_crawl_triggered to now when flag is true
\* and leaves it when false, and changes nothing else of that entry and
\* nothing of any other entry.
C16_SetCrawlingStatusFrame ==
    [][(now' = now /\ last'.op = "set_crawling_status"
        /\ _normalize_url(last'.url) \in DOMAIN cache)
       => LET k == _normalize_url(last'.url)
          IN  /\ DOMAIN cache' = DOMAIN cache
              /\ \A x \in DOMAIN cache \ {k} : cache'[x] = cache[x]
              /\ cache'[k].is_crawling = last'.flag
              /\ cache'[k].last_crawl_triggered =
                    IF last'.flag THEN now ELSE cache[k].last_crawl_triggered
              /\ cache'[k].enriched_context = cache[k].enriched_context
              /\ cache'[k].cached_at = cache[k].cached_at
              /\ cache'[k].url = cache[k].url]_vars

\* C16 witness: the flag of an entry that holds a context was set and, later
\* than the context was cached, cleared again.
C16_Witness ==
    /\ last.op = "set_crawling_status"
    /\ ~ last.flag
    /\ _normalize_url(last.url) = UrlA
    /\ UrlA \in DOMAIN cache
    /\ cache[UrlA].enriched_context # NoContext
    /\ cache[UrlA].last_crawl_triggered # None
    /\ cache[UrlA].cached_at < cache[UrlA].last_crawl_triggered

\* C17: a call of get, get_enriched or is_being_crawled leaves the cache
\* and the file as they are (so an entry changes or goes only in a call of
\* a mutating operation); get of a URL whose entry is older than the TTL
\* returns nothing and the entry stays.
C17_ReadsDoNotModify ==
    [][/\ (now' = now /\ last'.op \in ReadOps) => (cache' = cache /\ disk' = disk)
       /\ (now' = now /\ last'.op = "get")
          => LET k == _normalize_url(last'.url)
             IN  (k \in DOMAIN cache /\ now - cache[k].cached_at > PAGE_CONTEXT_CACHE_TTL)
                 => (last'.entry = NoEntry /\ k \in DOMAIN cache' /\ cache'[k] = cache[k])
       /\ cache' # cache => last'.op \in MutatingOps]_vars

\* C17 witness: get has returned nothing for a URL whose expired entry,
\* context included, is in the cache.
C17_Witness ==
    /\ last.op = "get"
    /\ last.entry = NoEntry
    /\ _normalize_url(last.url) \in DOMAIN cache
    /\ cache[_normalize_url(last.url)].enriched_context # NoContext
    /\ now - cache[_normalize_url(last.url)].cached_at > PAGE_CONTEXT_CACHE_TTL

\* C18: a result of _normalize_url has no query and no fragment, does not
\* end in '/' unless its path is the root, and is its own normal form.
C18_KeysAreNormalForms ==
    last.op = "_normalize_url"
    => /\ last.key.query = "" /\ last.key.fragment = ""
       /\ last.key.scheme = last.url.scheme /\ last.key.netloc = last.url.netloc
       /\ Len(last.key.path) > 1 => last.key.path[Len(last.key.path)] # "/"
       /\ _normalize_url(last.key) = last.key

\* C19: when a mutating operation of the store has changed the cache and
\* returned, the file holds the cache, and loading it gives the cache.
C19_FileHoldsCache ==
    [][(last'.op \in MutatingOps /\ cache' # cache)
       => (disk' = File(cache') /\ _load(disk') = cache')]_vars

\* C20: after _load, every well-formed record of a readable file is in the
\* cache, whatever the other records of the file are.
C20_LoadSkipsOnlyMalformed ==
    (last.op = "_load" /\ disk.parseable)
    => \A k \in DOMAIN disk.records :
          ~ Malformed(disk.records[k])
          => (k \in DOMAIN cache /\ cache[k] = disk.records[k])

\* ------------------------------------------------- claims on the matcher

\* the topics the call was given
page_topics == args.page_topics.list

\* scores, as the call computed it
TheScores == result.scores

\* the call returned from _diversify_by_topics
Diversified ==
    result.status = "returned" /\ args.page_embedding # <<>>

\* the selection path the call took
NoTopicsPath == Diversified /\ page_topics = <<>>

SingleCategoryPath ==
    Diversified /\ page_topics # <<>> /\ is_single_category(page_topics)

MultiCategoryPath ==
    Diversified /\ page_topics # <<>> /\ ~ is_single_category(page_topics)

\* C21: find_best_products returns at most top_k results, on the path
\* without topics, the single-category path and the multi-category path.
C21_AtMostTopK ==
    result.status = "returned" => Len(result.items) <= args.top_k

\* a multi-category call with more surviving products than top_k filled
\* every slot
C21_Witness ==
    /\ MultiCategoryPath
    /\ args.top_k > 0
    /\ Len(TheScores) > args.top_k
    /\ Len(result.items) = args.top_k

\* the lower-cased name and description of the product contain an exclusion
\* keyword of one of the page topics
Vetoed(product) ==
    \E t \in 1..Len(page_topics) :
        /\ page_topics[t] \in DOMAIN exclude_keywords_by_topic
        /\ \E keyword \in exclude_keywords_by_topic[page_topics[t]] :
               In(keyword, lower(product.name \o <<" ">> \o product.description))

\* the raw score of a product of the call
RawScore(product) == cosine_similarity(args.page_embedding, product.product_embedding)

\* C22: no product whose lower-cased name and description contain an
\* exclusion keyword of a page topic is in the result, whatever its score,
\* min_score and top_k.
C22_VetoedNeverReturned ==
    result.status = "returned" =>
        \A i \in 1..Len(result.items) : ~ Vetoed(result.items[i].product)

\* a vetoed product that is active, has an embedding, passes the threshold
\* and scores at least as high as every returned product was left out of a
\* result that is not empty
C22_Witness ==
    /\ Diversified
    /\ result.items # <<>>
    /\ \E p \in 1..Len(args.products) :
        LET product == args.products[p] IN
        /\ Vetoed(product)
        /\ product.active
        /\ product.product_embedding # <<>>
        /\ RawScore(product) >= args.min_score
        /\ \A i \in 1..Len(result.items) :
               /\ RawScore(product) >= result.items[i].original_score
               /\ result.items[i].product.id # product.id

\* the vector is absent or has norm zero
AbsentOrZero(vec) == \A i \in 1..Len(vec) : vec[i] = 0

\* C23: no returned product is inactive, without embedding or with a
\* zero-norm embedding, and nothing is returned when the page embedding is
\* absent or has norm zero, for every min_score.
C23_DegenerateNeverReturned ==
    result.status = "returned" =>
        /\ \A i \in 1..Len(result.items) :
               /\ result.items[i].product.active
               /\ ~ AbsentOrZero(result.items[i].product.product_embedding)
        /\ AbsentOrZero(args.page_embedding) => result.items = <<>>

\* the products of the result
Selected == {result.items[i].product.id : i \in 1..Len(result.items)}

\* the positions of a sequence of scored products are in descending order
\* of boosted score
Descending(items, positions) ==
    \A i, j \in positions : i < j => items[i].score >= items[j].score

\* C24: on a single-category page with preferred category C and n
\* surviving products of category C, the result is the min(top_k, n) best
\* products of C in descending order of boosted score, followed, only if
\* n < top_k, by the best products of the other categories in descending
\* order, up to top_k in all.
C24_SingleCategorySelection ==
    SingleCategoryPath =>
        LET C == selection_category(page_topics)
            n == Cardinality({s \in 1..Len(TheScores) : TheScores[s].category = C})
            m == Min(args.top_k, n)
            R == result.items
        IN /\ Len(R) = Min(args.top_k, Len(TheScores))
           /\ \A i \in 1..Len(R) : \E s \in 1..Len(TheScores) : R[i] = TheScores[s]
           /\ \A i \in 1..Len(R) : (R[i].category = C) <=> (i <= m)
           /\ Descending(R, 1..m)
           /\ Descending(R, (m + 1)..Len(R))
           /\ \A i \in 1..Len(R), s \in 1..Len(TheScores) :
                  /\ TheScores[s].product.id \notin Selected
                  /\ (TheScores[s].category = C) <=> (R[i].category = C)
                  => R[i].score >= TheScores[s].score

\* a single-category call with fewer products of the preferred category
\* than top_k was backfilled from the other categories, and a surviving
\* product was left out
C24_Witness ==
    /\ SingleCategoryPath
    /\ \E i \in 1..Len(result.items) :
           result.items[i].category = selection_category(page_topics)
    /\ \E i \in 1..Len(result.items) :
           result.items[i].category # selection_category(page_topics)
    /\ Len(TheScores) > args.top_k

\* the category has a surviving product
HasSurvivor(category) ==
    \E s \in 1..Len(TheScores) : TheScores[s].category = category

\* C25: on a multi-category page with top_k at least the number of matched
\* categories, the result holds a product of every matched category that
\* has a surviving product.
C25_EveryMatchedCategoryServed ==
    MultiCategoryPath /\ args.top_k >= Cardinality(page_categories(page_topics)) =>
        \A category \in page_categories(page_topics) :
            HasSurvivor(category) =>
                \E i \in 1..Len(result.items) : result.items[i].category = category

\* two matched categories with survivors each got a slot, and a surviving
\* product that scores higher than a returned one was left out
C25_Witness ==
    /\ MultiCategoryPath
    /\ args.top_k >= Cardinality(page_categories(page_topics))
    /\ \A category \in page_categories(page_topics) : HasSurvivor(category)
    /\ \E s \in 1..Len(TheScores), i \in 1..Len(result.items) :
           /\ TheScores[s].product.id \notin Selected
           /\ TheScores[s].score > result.items[i].score

\* the category is one a page topic maps to
Matched(category) == category \in page_categories(page_topics)

\* C26: on a multi-category page a product of a category that no page
\* topic maps to is selected only when every surviving product of the
\* matched categories has been selected before it.
C26_UnmatchedOnlyAfterMatched ==
    MultiCategoryPath =>
        \A i \in 1..Len(result.items) :
            ~ Matched(result.items[i].category) =>
                \A s \in 1..Len(TheScores) :
                    Matched(TheScores[s].category) =>
                        \E j \in 1..(i - 1) :
                            result.items[j].product.id = TheScores[s].product.id

\* C27: on a multi-category page, and on a page whose topics map to no
\* category, the slots the round-robin over the matched categories leaves
\* are filled by descending boosted score: no selected product of an
\* unmatched category scores lower than a surviving product left
\* unselected.
C27_FillByScore ==
    MultiCategoryPath =>
        \A i \in 1..Len(result.items), s \in 1..Len(TheScores) :
            /\ ~ Matched(result.items[i].category)
            /\ TheScores[s].product.id \notin Selected
            => result.items[i].score >= TheScores[s].score

\* the category of the first page topic that maps to a category
FirstMappedCategory ==
    topic_category(page_topics[CHOOSE t \in 1..Len(page_topics) :
                                   /\ topic_category(page_topics[t]) # NoCategory
                                   /\ \A u \in 1..(t - 1) :
                                          topic_category(page_topics[u]) = NoCategory])

\* C28: on a multi-category page the round-robin starts with the category
\* of the first mapped topic: the first result is the best surviving
\* product of that category whenever it has one.
C28_TopicOrder ==
    /\ MultiCategoryPath
    /\ page_categories(page_topics) # {}
    /\ args.top_k > 0
    /\ HasSurvivor(FirstMappedCategory)
    => /\ result.items # <<>>
       /\ result.items[1].category = FirstMappedCategory
       /\ \A s \in 1..Len(TheScores) :
              TheScores[s].category = FirstMappedCategory =>
                  result.items[1].score >= TheScores[s].score

\* the score adjustment for preferred category C of a product of the given
\* category and raw score
Adjusted(raw, category, C) ==
    IF category = C THEN Min(ScoreOne, (raw * 115) \div 100)
    ELSE IF category \in {"technology", "lifestyle", "outdoor"} THEN (raw * 70) \div 100
    ELSE raw

\* C29: when the selection treats the page as single-category with
\* preferred category C, the scores are adjusted for the same C: products
\* of C get min(1.0, raw x 1.15), products of the other named categories
\* raw x 0.7, products of category other keep their raw score.
C29_BoostMatchesSelection ==
    SingleCategoryPath =>
        \A s \in 1..Len(TheScores) :
            TheScores[s].score = Adjusted(TheScores[s].original_score,
                                          TheScores[s].category,
                                          selection_category(page_topics))

\* C30, as claimed: on a multi-category page no boost and no penalty is
\* applied, the boosted score of every result is its raw cosine score.
C30_NoAdjustmentOnMultiCategory ==
    MultiCategoryPath =>
        \A i \in 1..Len(result.items) :
            result.items[i].score = result.items[i].original_score

\* C30, amended: on a multi-category page the scores are adjusted for the
\* category of the first page topic: products of that category get
\* min(1.0, raw x 1.15), products of the other named categories raw x 0.7,
\* products of category other keep their raw score; when the first topic
\* maps to no category every boosted score is the raw cosine score.
C30_AdjustmentForFirstTopic ==
    MultiCategoryPath =>
        \A i \in 1..Len(result.items) :
            result.items[i].score =
                IF topic_category(page_topics[1]) = NoCategory
                THEN result.items[i].original_score
                ELSE Adjusted(result.items[i].original_score,
                              result.items[i].category,
                              topic_category(page_topics[1]))

\* a multi-category call returned a boosted product and a penalised one
C30_Witness ==
    /\ MultiCategoryPath
    /\ \E i \in 1..Len(result.items) :
           result.items[i].score > result.items[i].original_score
    /\ \E i \in 1..Len(result.items) :
           result.items[i].score < result.items[i].original_score

\* C31: the products of the call having distinct identifiers, no identifier
\* appears twice in the result, on every selection path.
C31_NoProductTwice ==
    result.status = "returned" =>
        \A i, j \in 1..Len(result.items) :
            i # j => result.items[i].product.id # result.items[j].product.id

\* a multi-category call returned two products of one matched category:
\* the round-robin selected the first, the fill by score the second
C31_Witness ==
    /\ MultiCategoryPath
    /\ \E i, j \in 1..Len(result.items) :
           /\ i < j
           /\ result.items[i].category = result.items[j].category
           /\ Matched(result.items[i].category)

\* the product passes the filters of a call without page topics: it is
\* active, has an embedding and reaches min_score
Survives(product) ==
    /\ product.active
    /\ product.product_embedding # <<>>
    /\ RawScore(product) >= args.min_score

\* the call returned the top_k best surviving products, best first, each
\* with its raw score
TopKByRawScore ==
    /\ result.status = "returned"
    /\ LET R == result.items
           survivors == {p \in 1..Len(args.products) : Survives(args.products[p])}
       IN /\ Len(R) = Min(args.top_k, Cardinality(survivors))
          /\ \A i \in 1..Len(R) :
                 /\ \E p \in survivors : R[i].product = args.products[p]
                 /\ R[i].score = RawScore(R[i].product)
                 /\ R[i].original_score = R[i].score
          /\ Descending(R, 1..Len(R))
          /\ \A i \in 1..Len(R), p \in survivors :
                 args.products[p].id \notin Selected
                     => R[i].score >= RawScore(args.products[p])

\* C32: a call with a page embedding and no page topics (absent, the
\* default, or empty) does not raise and returns the top_k best surviving
\* products in descending order of score, with unadjusted scores.
C32_NoTopicsNeverRaises ==
    /\ result.status # "none"
    /\ args.page_embedding # <<>>
    /\ args.page_topics.is_none \/ args.page_topics.list = <<>>
    => TopKByRawScore

Contains(keywords, product) ==
    \E keyword \in keywords :
        In(keyword, lower(product.name \o <<" ">> \o product.description))

\* C34: _categorize_product gives every product exactly one of technology,
\* outdoor, lifestyle, other, by first match in that order: a technology
\* keyword wins over outdoor and lifestyle keywords, an outdoor keyword over
\* lifestyle keywords, and a product matching no list is other.
C34_FirstMatchInPriorityOrder ==
    result.status = "categorized" =>
        LET product == args.product
            tech == Contains(tech_keywords, product)
            outdoor == Contains(outdoor_keywords, product)
            lifestyle == Contains(lifestyle_keywords, product)
        IN /\ result.category \in {"technology", "outdoor", "lifestyle", "other"}
           /\ tech => result.category = "technology"
           /\ ~ tech /\ outdoor => result.category = "outdoor"
           /\ ~ tech /\ ~ outdoor /\ lifestyle => result.category = "lifestyle"
           /\ ~ tech /\ ~ outdoor /\ ~ lifestyle => result.category = "other"

\* a product with a technology keyword and an outdoor keyword was
\* categorized
C34_Witness ==
    /\ result.status = "categorized"
    /\ Contains(tech_keywords, args.product)
    /\ Contains(outdoor_keywords, args.product)
    /\ result.category = "technology"

\* C35: cosine_similarity(a, b) equals cosine_similarity(b, a), its result
\* lies in [0, 1] with negative cosines clamped to 0, and it is 0 whenever
\* either vector is empty or has zero norm.
C35_SymmetricClampedZero ==
    result.status \in {"similarity", "raised"} =>
        /\ result = cosine_similarity_outcome(args.vec2, args.vec1)
        /\ result.status = "similarity" =>
               /\ 0 <= result.value /\ result.value <= ScoreOne
               /\ Len(args.vec1) = Len(args.vec2) /\ Dot(args.vec1, args.vec2) < 0
                      => result.value = 0
        /\ AbsentOrZero(args.vec1) \/ AbsentOrZero(args.vec2)
               => result = Similarity(0)

\* the cosine of two vectors pointing apart was computed
C35_Witness ==
    /\ result.status = "similarity"
    /\ ~ AbsentOrZero(args.vec1) /\ ~ AbsentOrZero(args.vec2)
    /\ Dot(args.vec1, args.vec2) < 0
    /\ result.value = 0

\* ------------------------------------ claims on stored contexts and crawls

\* the step leaves the enriched context filed under k and its cached_at as
\* they were
ContextKept(k) ==
    /\ k \in DOMAIN cache'
    /\ cache'[k].enriched_context = cache[k].enriched_context
    /\ cache'[k].cached_at = cache[k].cached_at

\* the step is a store_enriched_context for k: the entry is a new one,
\* holding a context, not crawling, cached now
ContextStored(k) ==
    /\ k \in DOMAIN cache'
    /\ cache'[k].enriched_context # NoContext
    /\ cache'[k] = PageContextCache(k, cache'[k].enriched_context, FALSE, None, now')

\* the store of the step is the embedding back-fill of a lookup: the
\* context is the one that was stored, with its embedding added
EmbeddingBackFilled(k) ==
    /\ ContextStored(k)
    /\ cache[k].enriched_context.text_embedding = "None"
    /\ cache'[k].enriched_context =
           [cache[k].enriched_context EXCEPT !.text_embedding = "vec"]

\* in this step the crawl_url_sync of task t returns without a context:
\* the crawler is disabled, the trigger fails, the run ends FAILED, ABORTED
\* or timed out, the wait times out, an error is caught, or the run
\* delivers nothing
CrawlEndsWithoutContext(t) ==
    /\ pc[t] # "done" /\ pc'[t] = "done"
    /\ h'[t].called
    /\ ~ h'[t].got

\* C36: once an enriched context is stored for a URL, only a new store
\* changes it: every step of the request tasks keeps the context and its
\* cached_at or is a store_enriched_context for that URL, and a crawl of
\* the URL that returns without a context keeps them (the lookup that
\* follows it may back-fill the embedding through store_enriched_context).
\* Nothing calls invalidate or clear_all.
C36_OnlyAStoreChangesAContext ==
    [][~ Restart =>
        \A k \in DOMAIN cache :
            cache[k].enriched_context # NoContext =>
                /\ ContextKept(k) \/ ContextStored(k)
                /\ \A t \in Tasks :
                       CrawlEndsWithoutContext(t) /\ _normalize_url(url'[t]) = k
                           => ContextKept(k) \/ EmbeddingBackFilled(k)]_vars

\* the failing outcomes of crawl_url_sync
FailedExits == {"trigger_failed", "timeout", "exception", "status_failed", "fetched"}

\* a task whose call found an entry and no crawl in flight for its URL
\* crawled it and the crawl returned without a context, and the entry of
\* the URL holds the context stored before
C36_Witness ==
    \E t \in Tasks :
        LET k == _normalize_url(url[t])
        IN /\ pc[t] = "done"
           /\ h[t].called /\ h[t].sent
           /\ h[t].joined = {} /\ ~ h[t].cold
           /\ h[t].exit \in FailedExits
           /\ ~ h[t].got
           /\ k \in DOMAIN cache
           /\ cache[k].enriched_context # NoContext

\* in this step the get_or_enrich of task t is served from the cache: the
\* entry of its URL held an unexpired enriched context when it was called
ServedFromCache(t) ==
    /\ pc[t] = "idle" /\ pc'[t] = "done"
    /\ h'[t].exit = "hit"
    /\ h'[t].hadCtx

\* C37: a lookup never extends the life of a cache entry: a get_or_enrich
\* served from the cache leaves the entry's cached_at unchanged, also when
\* it back-fills a missing embedding.
C37_LookupKeepsCachedAt ==
    [][\A t \in Tasks :
          ServedFromCache(t) =>
              LET k == _normalize_url(url'[t])
              IN  k \in DOMAIN cache' /\ cache'[k].cached_at = cache[k].cached_at]_vars

\* C38: if embedding generation fails while the results of a SUCCEEDED
\* crawl are processed, the enriched context is still stored, with its
\* embedding absent, the crawling flag is cleared, and crawl_url_sync
\* returns that context.
C38_StoredWithoutEmbedding ==
    [][\A t \in Tasks, results \in Contents :
          FetchDone(t, results, "error") =>
              LET k == _normalize_url(url[t])
                  ctx == EnrichedPageContext(url[t], results, "None")
              IN  /\ k \in DOMAIN cache'
                  /\ cache'[k].enriched_context = ctx
                  /\ ~ cache'[k].is_crawling
                  /\ h'[t].exit = "fetched" /\ h'[t].got
                  /\ ret'[t] = merge_contexts(url[t], ctx)]_vars

\* a crawl returned the context it fetched and the entry of its URL holds
\* it without embedding, not crawling
C38_Witness ==
    \E t \in Tasks :
        LET k == _normalize_url(url[t])
        IN /\ pc[t] = "done"
           /\ h[t].exit = "fetched" /\ h[t].got
           /\ ret[t].has_enriched
           /\ k \in DOMAIN cache
           /\ cache[k].enriched_context.content = ret[t].content
           /\ cache[k].enriched_context.text_embedding = "None"
           /\ ~ cache[k].is_crawling

\* ------------------------------------------ claims on the order of results

\* where the product is in the list the call was given
Position(product) ==
    CHOOSE p \in 1..Len(args.products) : args.products[p].id = product.id

\* C39, as claimed: of two returned products of the same category the one
\* with the strictly higher raw score is never placed after the other,
\* whatever the order of the products in the list given.
C39_RawRankingPreserved ==
    result.status = "returned" =>
        \A i, j \in 1..Len(result.items) :
            /\ i < j
            /\ result.items[i].category = result.items[j].category
            => result.items[i].original_score >= result.items[j].original_score

\* C39, amended: of two returned products of the same category the one with
\* the strictly higher raw score is never placed after the other, unless
\* both have the same adjusted score (two products of the preferred
\* category whose boost is capped at 1.0); those two are placed in the
\* order of the list given.
C39_RankingPreservedUpToTies ==
    result.status = "returned" =>
        \A i, j \in 1..Len(result.items) :
            /\ i < j
            /\ result.items[i].category = result.items[j].category
            => \/ result.items[i].original_score >= result.items[j].original_score
               \/ /\ result.items[i].score = result.items[j].score
                  /\ Position(result.items[i].product) < Position(result.items[j].product)

\* two products of the preferred category were returned, both capped at
\* 1.0, the one with the lower raw score first
C39_Witness ==
    /\ Diversified
    /\ \E i, j \in 1..Len(result.items) :
           /\ i < j
           /\ result.items[i].category = result.items[j].category
           /\ result.items[i].original_score < result.items[j].original_score
           /\ result.items[i].score = ScoreOne
           /\ result.items[j].score = ScoreOne

====
